---- MODULE Spec2Model ----
(***************************************************************************)
(* Model of the real-time subscription management layer of ig-client:      *)
(*   - DynamicMarketStreamer (src/src/application/dynamic_streamer.rs)     *)
(*   - StreamerClient::connect_client (src/src/application/client.rs)      *)
(* SpecDyn and SpecDynShort are the streamer with its callers (clones) and *)
(* background connection tasks; SpecConn is one StreamerClient::connect    *)
(* with the bounded-retry connect loop of each connection class; SpecFwd   *)
(* is the subscriptions of a StreamerClient with their forwarding tasks.   *)
(***************************************************************************)
EXTENDS Integers, Sequences, FiniteSets, TLC

\* ------------------------------------------------------------------ bounds
\* Total number of public calls issued on the streamer and its clones: SpecDyn
\* explores MaxCalls of them, SpecDynShort the first ShortCalls.
MaxCalls == 4
ShortCalls == 3
\* The clones of one streamer that issue calls concurrently.
Callers == {1, 2}
\* The EPICs callers may add or remove.
Keys == {"A", "B"}
\* Names for the StreamerClients (with the Notify and the connection task that the
\* same start_internal creates): one per call is enough.
Gens == 1..MaxCalls

None == 0
\* A StreamerClient: the generation of the start_internal that created it and the
\* items of its market subscription.
NoClient == [id |-> None, sub |-> {}]

VARIABLES
    \* ---- DynamicMarketStreamer fields (shared through Arc by all clones)
    epics,            \* HashSet<String>
    client,           \* Option<StreamerClient>: NoClient or the stored client
    is_connected,     \* bool
    shutdown_signal,  \* Option<Arc<Notify>>: None or the generation of the stored signal
    price_rx,         \* Option<UnboundedReceiver>: TRUE while the receiver is still there
    \* ---- objects created by start_internal, by generation
    permit,           \* Notify of each generation: TRUE while a notify_one permit is stored
    task,             \* background connection task of each generation
    taskClient,       \* the client (its generation) the task is connecting
    \* ---- the RwLock around the client cell (tokio: FIFO-fair)
    lockHolder,       \* Nobody or the process holding the write lock
    lockQueue,        \* processes waiting for the write lock, in arrival order
    \* ---- callers: position, operation, argument and locals of each clone's call
    cs,
    ret,              \* the call that returned in the last step, with its result
    left,             \* number of calls still to be issued
    hist,             \* how the streamer has been used so far (see Usage)
    rxOk,             \* get_receiver calls that returned the receiver
    fwd_task,         \* forwarding task start_internal spawned for each generation
    shared,           \* the channel made by new(): its sender cell, queue, and receipts
    sub_chan,         \* the channels and converter task of each generation's subscription
    \* ---- StreamerClient and one call of its connect
    has_subs,         \* has_market_stream_subs / has_price_stream_subs, by class
    connect_pc,       \* position of StreamerClient::connect
    connect_result,   \* what connect returned
    run,              \* the connect_client task of each connection class
    signalled,        \* the shutdown signal given to connect was notified
    handle,           \* Mutex<LightstreamerClient> of each class: who holds it
    call,             \* the subscribe or disconnect call in flight on the client
    mret,             \* what the last such call returned
    forced_transport, \* connection_options.forced_transport of each handle
    \* ---- subscriptions of a StreamerClient
    subsc,            \* the subscriptions created, in call order
    chans,            \* the typed channels created (mpsc::unbounded_channel)
    nUpdates,         \* raw updates that have arrived so far
    registered,       \* the subscriptions registered on the handle of each class
    \* ---- the field codec, applied to one raw update
    item_update,      \* the ItemUpdate handed to from_item_update
    decoded,          \* what the last decode returned
    \* ---- the process environment
    adapter_env,      \* IG_PRICING_ADAPTER: unset, or its value
    \* ---- a Position and the last result of its pnl()
    position,
    pnl_out,
    \* ---- one call of Client::get_order_confirmation_w_retry
    rt,
    \* ---- one call of Client::get_transactions
    pg

dynVars == <<epics, client, is_connected, shutdown_signal, price_rx,
             permit, task, taskClient, lockHolder, lockQueue, cs, ret, left, hist, rxOk,
             fwd_task, shared, sub_chan>>

chanVars == <<fwd_task, shared, sub_chan>>

connVars == <<has_subs, connect_pc, connect_result, run, signalled, handle, call, mret,
              forced_transport>>

fwdVars == <<subsc, chans, nUpdates, registered>>

libVars == <<item_update, decoded, adapter_env, position, pnl_out, rt, pg>>

vars == <<dynVars, connVars, fwdVars, libVars>>

Caller(c) == <<"caller", c>>
Task(g) == <<"task", g>>
Nobody == <<"nobody", 0>>
NoReturn == <<0, "none", "none", "none", "none">>

\* A caller between calls.  read is the local `epics` of start_internal, mine the
\* StreamerClient it built.  pre, quiet, nNotified, nCreated and atTrigger observe
\* the call in flight: whether it started on a steady connection and ran alone so
\* far, the membership at its start in that case, the notify_one calls and
\* StreamerClients it made, and the membership when it went into reconnect or
\* start_internal.
IdleRec == [pc |-> "idle", op |-> "none", key |-> "none", mine |-> NoClient,
            read |-> {},
            pre |-> {}, quiet |-> FALSE, nNotified |-> 0, nCreated |-> 0,
            atTrigger |-> {}]

\* ------------------------------------------------------------ construction
\* DynamicMarketStreamer::new
New ==
    /\ epics = {}
    /\ client = NoClient
    /\ is_connected = FALSE
    /\ shutdown_signal = None
    /\ price_rx = TRUE

\* No market subscription of this generation: no converter task, nothing on the
\* item channel (listener to converter) or the typed channel (converter to the
\* forwarding task of start_internal).
NoSubscription == [conv |-> "none", items |-> 0, typed |-> 0]

InitObjects ==
    /\ permit = [g \in Gens |-> FALSE]
    /\ task = [g \in Gens |-> "none"]
    /\ taskClient = [g \in Gens |-> None]
    /\ lockHolder = Nobody
    /\ lockQueue = <<>>
    /\ cs = [c \in Callers |-> IdleRec]
    /\ ret = NoReturn
    /\ hist = "setup"
    /\ rxOk = 0
    /\ fwd_task = [g \in Gens |-> "none"]
    /\ shared = [tx |-> TRUE, queue |-> <<>>, got |-> <<>>, n |-> 0, rx_dropped |-> FALSE]
    /\ sub_chan = [g \in Gens |-> NoSubscription]

\* ----------------------------------------------------------------- helpers
Live(g) == task[g] \in {"spawned", "waiting", "connecting", "released"}

\* A name no object in use carries: a new StreamerClient takes the least one.  The
\* name of a client stays in use while records of its subscription exist.
InUse(g) ==
    \/ Live(g)
    \/ client.id = g
    \/ shutdown_signal = g
    \/ \E c \in Callers : cs[c].mine.id = g
    \/ sub_chan[g].items > 0 \/ sub_chan[g].typed > 0
    \/ \E i \in DOMAIN shared.queue : shared.queue[i].from = g
    \/ \E i \in DOMAIN shared.got : shared.got[i].from = g
Fresh == CHOOSE g \in Gens : ~InUse(g) /\ \A h \in Gens : h < g => InUse(h)

\* Notify::notify_one: a permit is stored for the connect that waits, or will wait,
\* on the signal; one stored for a connection task that has left connect is never
\* looked at again and is not kept.
NotifyOne(g) ==
    IF task[g] \in {"released"} \/ (task[g] = "none" /\ \A c \in Callers : cs[c].mine.id # g)
      THEN permit
      ELSE [permit EXCEPT ![g] = TRUE]

\* One connection, set up by the start_internal that created the stored client, is
\* being run by its own task; nothing else is in flight.
Steady ==
    /\ is_connected
    /\ client # NoClient
    /\ shutdown_signal = client.id
    /\ task[client.id] = "connecting"
    /\ taskClient[client.id] = client.id
    /\ ~permit[client.id]
    /\ \A g \in Gens : Live(g) => g = client.id
    /\ \A c \in Callers : cs[c].pc = "idle"

\* tokio::sync::RwLock::write on the client cell: granted at once when the lock is
\* free and nobody waits, else the process queues and is granted in arrival order.
LockFree == lockHolder = Nobody /\ lockQueue = <<>>
LockGranted(p) == lockHolder = Nobody /\ lockQueue # <<>> /\ Head(lockQueue) = p

\* The caller-local part of a step of caller c; disturb: the step starts a call, which
\* ends the solitude of the calls in flight.
Upd(c, rec, disturb) ==
    cs' = [d \in Callers |->
             IF d = c THEN rec
             ELSE IF disturb THEN [cs[d] EXCEPT !.quiet = FALSE] ELSE cs[d]]

Goto(c, rec, disturb) ==
    /\ Upd(c, rec, disturb)
    /\ ret' = NoReturn

\* Caller c returns r from operation o(k); the last component is where it returned.
Return(c, o, k, r, disturb) ==
    /\ Upd(c, IdleRec, disturb)
    /\ ret' = <<c, o, k, r, cs[c].pc>>

\* How the streamer has been used: "setup" until the one start() that connects it,
\* issued with no call in flight on a non-empty membership; then "addremove" while
\* every call is an add or a remove issued with is_connected set, no connection ends
\* on its own and no StreamerClient fails to build; "mixed" once that fails but
\* start() was still called only once and alone; "void" otherwise.
Usage(o) ==
    CASE hist = "setup" ->
           IF o # "start" THEN "setup"
           ELSE IF epics # {} /\ \A d \in Callers : cs[d].pc = "idle"
                  THEN "addremove" ELSE "void"
      [] hist \in {"addremove", "mixed"} ->
           IF o = "start" \/ \E d \in Callers : cs[d].op = "start" THEN "void"
           ELSE IF hist = "addremove" /\ o \in {"add", "remove"} /\ is_connected
                  THEN "addremove" ELSE "mixed"
      [] OTHER -> "void"

Mixed == IF hist = "addremove" THEN "mixed" ELSE hist

\* A clone issues a call.  Clones are interchangeable: of the idle ones the least
\* issues it.
Issue(c) ==
    /\ cs[c].pc = "idle"
    /\ left > 0
    /\ \A d \in Callers : d < c => cs[d].pc # "idle"
    /\ left' = left - 1

Started(c, o, k, p) ==
    [IdleRec EXCEPT !.pc = p, !.op = o, !.key = k, !.quiet = Steady,
                    !.pre = IF Steady THEN epics ELSE {}]

\* ------------------------------------------------- the code's decisions
\* (mutant: add without the membership test)
AddNeverSubscribed(k, S) == FALSE

\* add, line 137: `if epics.contains(&epic) { return Ok(()) }`
AddAlreadySubscribed(k, S) == k \in S

\* (mutant: remove that takes every key for removed)
AlwaysRemoved(k, S) == TRUE

\* remove, line 175: `let was_removed = epics.remove(&epic)`
WasRemoved(k, S) == k \in S

\* (mutant: the connected test inverted)
ReconnectIfNot(connected) == ~connected

\* add, lines 147-150, and remove, lines 185-188: reconnect only when connected
ReconnectIf(connected) == connected

\* (mutant: the receiver is handed out without being taken out of the cell)
CloneReceiver(rx) == [got |-> rx, left |-> rx]

\* get_receiver, lines 253-256: `rx_lock.take().ok_or_else(..)`: what the call gets
\* and what stays in the cell
TakeReceiver(rx) == [got |-> rx, left |-> FALSE]

\* (mutant: a clear that leaves the membership as it is)
ClearedNothing(S) == S

\* clear, line 211: `epics.clear()`
Cleared(S) == {}

\* (mutant: an empty membership is connected like any other)
SubscribesAnything(S) == FALSE

\* reconnect, lines 278-281, and start_internal, lines 288-293: connect only a
\* non-empty membership
NothingToSubscribe(S) == S = {}

\* start_internal, line 302: the items the new client subscribes to
SubscribedItems(S) == S

\* (mutant: the new client is built on the membership seen when the reconnect was
\* triggered)
MembershipAtTrigger(now, atTrigger) == atTrigger

\* reconnect, line 278, and start_internal, line 288: `self.get_epics().await` reads
\* the membership as it is when the caller gets there
MembershipRead(now, atTrigger) == now

\* --------------------------------------------------------- caller actions
unlocked == <<lockHolder, lockQueue>>
objects == <<permit, task, taskClient>>
fields == <<epics, client, is_connected, shutdown_signal, price_rx>>

\* add(epic), lines 134-145
AddCall(c, k) ==
    /\ Issue(c)
    /\ hist' = Usage("add")
    /\ IF AddAlreadySubscribed(k, epics)
         THEN /\ Return(c, "add", k, "Ok", TRUE)
              /\ UNCHANGED epics
         ELSE /\ epics' = epics \cup {k}
              /\ Goto(c, Started(c, "add", k, "chk"), TRUE)
    /\ UNCHANGED <<connVars, fwdVars, libVars, chanVars, client, is_connected, shutdown_signal, price_rx, objects, unlocked,
                   rxOk>>

\* remove(epic), lines 172-184
RemoveCall(c, k) ==
    /\ Issue(c)
    /\ hist' = Usage("remove")
    /\ epics' = epics \ {k}
    /\ IF WasRemoved(k, epics)
         THEN Goto(c, Started(c, "remove", k, "chk"), TRUE)
         ELSE Return(c, "remove", k, "Ok", TRUE)
    /\ UNCHANGED <<connVars, fwdVars, libVars, chanVars, client, is_connected, shutdown_signal, price_rx, objects, unlocked,
                   rxOk>>

\* add, lines 147-152, and remove, lines 185-191: read is_connected
CheckConnected(c) ==
    /\ cs[c].pc = "chk"
    /\ IF ReconnectIf(is_connected)
         THEN Goto(c, [cs[c] EXCEPT !.pc = "r_notify", !.atTrigger = epics], FALSE)
         ELSE Return(c, cs[c].op, cs[c].key, "Ok", FALSE)
    /\ UNCHANGED <<connVars, fwdVars, libVars, chanVars, fields, objects, unlocked, left, hist, rxOk>>

\* reconnect, lines 266-272: notify_one on the stored shutdown signal
ReconnectNotify(c) ==
    /\ cs[c].pc = "r_notify"
    /\ IF shutdown_signal # None
         THEN /\ permit' = NotifyOne(shutdown_signal)
              /\ Goto(c, [cs[c] EXCEPT !.pc = "r_sleep",
                                       !.nNotified = cs[c].nNotified + 1], FALSE)
         ELSE /\ UNCHANGED permit
              /\ Goto(c, [cs[c] EXCEPT !.pc = "r_sleep"], FALSE)
    /\ UNCHANGED <<connVars, fwdVars, libVars, chanVars, fields, task, taskClient, unlocked, left, hist, rxOk>>

\* start_internal, lines 288-296, entered by the caller whose record is rec:
\* get_epics; with nothing to subscribe the call returns Ok, else it goes on to
\* build a StreamerClient.  reconnect's own get_epics, lines 278-281, is the same
\* read taken just before.
StartInternal(c, rec, disturb) ==
    IF NothingToSubscribe(epics)
      THEN Return(c, rec.op, rec.key, "Ok", disturb)
      ELSE Goto(c, [rec EXCEPT !.pc = "s_new",
                               !.read = MembershipRead(epics, rec.atTrigger)], disturb)

\* reconnect, lines 274-283: the grace sleep, then start_internal on what is there
ReconnectStart(c) ==
    /\ cs[c].pc = "r_sleep"
    /\ StartInternal(c, cs[c], FALSE)
    /\ UNCHANGED <<connVars, fwdVars, libVars, chanVars, fields, objects, unlocked, left,
                   hist, rxOk>>

\* start(), lines 374-376
StartCall(c) ==
    /\ Issue(c)
    /\ StartInternal(c, [Started(c, "start", "none", "s_read") EXCEPT !.atTrigger = epics],
                     TRUE)
    /\ hist' = Usage("start")
    /\ UNCHANGED <<connVars, fwdVars, libVars, chanVars, fields, objects, unlocked, rxOk>>

\* start_internal, lines 298-317, once StreamerClient::new and market_subscribe
\* have returned: either failed (`?`) and the call returns the error, or the client
\* is there, subscribed to the membership read before, with the converter task
\* market_subscribe spawned (client.rs line 790) and the forwarding task to the
\* shared channel.
BuildClient(c) ==
    /\ cs[c].pc = "s_new"
    /\ \/ /\ Return(c, cs[c].op, cs[c].key, "Err", FALSE)
          /\ hist' = Mixed
          /\ UNCHANGED <<fwd_task, sub_chan>>
       \/ /\ Goto(c, [cs[c] EXCEPT !.pc = "s_store",
                                    !.mine = [id |-> Fresh,
                                              sub |-> SubscribedItems(cs[c].read)],
                                    !.nCreated = cs[c].nCreated + 1], FALSE)
          /\ fwd_task' = [fwd_task EXCEPT ![Fresh] = IF shared.tx THEN "running" ELSE @]
          /\ sub_chan' = [sub_chan EXCEPT ![Fresh] =
                            [NoSubscription EXCEPT !.conv = "running"]]
          /\ UNCHANGED hist
    /\ UNCHANGED <<connVars, fwdVars, libVars, shared, fields, objects, unlocked, left, rxOk>>

\* start_internal, line 320: `*self.client.write().await = Some(new_client)`
StoreClient(c) ==
    /\ cs[c].pc = "s_store"
    /\ IF LockFree
         THEN /\ client' = cs[c].mine
              /\ Goto(c, [cs[c] EXCEPT !.pc = "s_sig"], FALSE)
              /\ UNCHANGED lockQueue
         ELSE /\ lockQueue' = Append(lockQueue, Caller(c))
              /\ Goto(c, [cs[c] EXCEPT !.pc = "s_wait"], FALSE)
              /\ UNCHANGED client
    /\ UNCHANGED <<connVars, fwdVars, libVars, chanVars, epics, is_connected, shutdown_signal, price_rx, objects, lockHolder,
                   left, hist, rxOk>>

StoreClientGranted(c) ==
    /\ cs[c].pc = "s_wait"
    /\ LockGranted(Caller(c))
    /\ lockQueue' = Tail(lockQueue)
    /\ client' = cs[c].mine
    /\ Goto(c, [cs[c] EXCEPT !.pc = "s_sig"], FALSE)
    /\ UNCHANGED <<connVars, fwdVars, libVars, chanVars, epics, is_connected, shutdown_signal, price_rx, objects, lockHolder,
                   left, hist, rxOk>>

\* start_internal, lines 323-324: a new Notify, which holds no permit, becomes the
\* stored shutdown signal
StoreSignal(c) ==
    /\ cs[c].pc = "s_sig"
    /\ shutdown_signal' = cs[c].mine.id
    /\ permit' = [permit EXCEPT ![cs[c].mine.id] = FALSE]
    /\ Goto(c, [cs[c] EXCEPT !.pc = "s_flag"], FALSE)
    /\ UNCHANGED <<connVars, fwdVars, libVars, chanVars, epics, client, is_connected, price_rx,
                   task, taskClient, unlocked, left, hist, rxOk>>

\* start_internal, lines 327-353: is_connected = true, spawn the connection task
MarkAndSpawn(c) ==
    /\ cs[c].pc = "s_flag"
    /\ is_connected' = TRUE
    /\ task' = [task EXCEPT ![cs[c].mine.id] = "spawned"]
    /\ Return(c, cs[c].op, cs[c].key, "Ok", FALSE)
    /\ UNCHANGED <<connVars, fwdVars, libVars, chanVars, epics, client, shutdown_signal, price_rx, permit, taskClient,
                   unlocked, left, hist, rxOk>>

\* clear(), lines 208-214
ClearCall(c) ==
    /\ Issue(c)
    /\ hist' = Usage("clear")
    /\ epics' = Cleared(epics)
    /\ Return(c, "clear", "none", "Ok", TRUE)
    /\ UNCHANGED <<connVars, fwdVars, libVars, chanVars, client, is_connected, shutdown_signal, price_rx, objects, unlocked,
                   rxOk>>

\* get_epics(), lines 228-231
GetEpicsCall(c) ==
    /\ Issue(c)
    /\ hist' = Usage("get_epics")
    /\ Return(c, "get_epics", "none", "Ok", TRUE)
    /\ UNCHANGED <<connVars, fwdVars, libVars, chanVars, fields, objects, unlocked, rxOk>>

\* get_receiver(), lines 252-257
GetReceiverCall(c) ==
    /\ Issue(c)
    /\ hist' = Usage("get_receiver")
    /\ price_rx' = TakeReceiver(price_rx).left
    /\ IF TakeReceiver(price_rx).got
         THEN /\ Return(c, "get_receiver", "none", "Ok", TRUE)
              /\ rxOk' = rxOk + 1
         ELSE /\ Return(c, "get_receiver", "none", "InvalidInput", TRUE)
              /\ UNCHANGED rxOk
    /\ UNCHANGED <<connVars, fwdVars, libVars, chanVars, epics, client, is_connected, shutdown_signal, objects, unlocked>>

\* disconnect(), lines 422-428: notify_one on the stored shutdown signal
DisconnectCall(c) ==
    /\ Issue(c)
    /\ hist' = Usage("disconnect")
    /\ IF shutdown_signal # None
         THEN permit' = NotifyOne(shutdown_signal)
         ELSE UNCHANGED permit
    /\ Goto(c, Started(c, "disconnect", "none", "d_lock"), TRUE)
    /\ UNCHANGED <<connVars, fwdVars, libVars, chanVars, fields, task, taskClient, unlocked, rxOk>>

\* disconnect(), lines 431-433, with the write lock (kept to the end of the call):
\* with a client in the cell the call is inside StreamerClient::disconnect, which
\* awaits the Mutex of each handle and the library's disconnect, and the cell still
\* holds the client; with an empty cell it goes on to line 437
AfterLock == IF client # NoClient THEN "d_client" ELSE "d_flag"

\* disconnect(), line 431: `self.client.write().await`
DisconnectLock(c) ==
    /\ cs[c].pc = "d_lock"
    /\ IF LockFree
         THEN /\ lockHolder' = Caller(c)
              /\ Goto(c, [cs[c] EXCEPT !.pc = AfterLock], FALSE)
              /\ UNCHANGED lockQueue
         ELSE /\ lockQueue' = Append(lockQueue, Caller(c))
              /\ Goto(c, [cs[c] EXCEPT !.pc = "d_wait"], FALSE)
              /\ UNCHANGED lockHolder
    /\ UNCHANGED <<connVars, fwdVars, libVars, chanVars, epics, client, is_connected, shutdown_signal, price_rx, objects, left, hist, rxOk>>

DisconnectLockGranted(c) ==
    /\ cs[c].pc = "d_wait"
    /\ LockGranted(Caller(c))
    /\ lockQueue' = Tail(lockQueue)
    /\ lockHolder' = Caller(c)
    /\ Goto(c, [cs[c] EXCEPT !.pc = AfterLock], FALSE)
    /\ UNCHANGED <<connVars, fwdVars, libVars, chanVars, epics, client, is_connected, shutdown_signal, price_rx, objects, left, hist, rxOk>>

\* disconnect(), lines 433-435: StreamerClient::disconnect on the stored client has
\* returned (always Ok, client.rs:1219-1238); `*client_lock = None` clears the cell
DisconnectClient(c) ==
    /\ cs[c].pc = "d_client"
    /\ client' = NoClient
    /\ Goto(c, [cs[c] EXCEPT !.pc = "d_flag"], FALSE)
    /\ UNCHANGED <<connVars, fwdVars, libVars, chanVars, epics, is_connected, shutdown_signal, price_rx, objects, lockHolder, lockQueue, left, hist, rxOk>>

\* (mutant: disconnect leaves the flag set)
FlagLeftSet == TRUE

\* disconnect(), line 437: `*self.is_connected.write().await = false`
FlagAfterDisconnect == FALSE

\* disconnect(), lines 437-440: is_connected = false; the guard drops on return
DisconnectFlag(c) ==
    /\ cs[c].pc = "d_flag"
    /\ is_connected' = FlagAfterDisconnect
    /\ lockHolder' = Nobody
    /\ Return(c, "disconnect", "none", "Ok", FALSE)
    /\ UNCHANGED <<connVars, fwdVars, libVars, chanVars, epics, client, shutdown_signal, price_rx, objects, lockQueue, left,
                   hist, rxOk>>

\* ------------------------------------- the background connection task
\* start_internal, lines 333-341, once the write lock is granted: connect the client
\* found in the cell with the signal the task was spawned with, or, with an empty
\* cell, end at once with Ok
Enter(g) ==
    IF client # NoClient
      THEN /\ task' = [task EXCEPT ![g] = "connecting"]
           /\ taskClient' = [taskClient EXCEPT ![g] = client.id]
           /\ lockHolder' = Task(g)
      ELSE /\ task' = [task EXCEPT ![g] = "released"]
           /\ UNCHANGED <<taskClient, lockHolder>>

\* start_internal, line 335: `client.write().await`
TaskLock(g) ==
    /\ task[g] = "spawned"
    /\ IF LockFree
         THEN /\ Enter(g)
              /\ UNCHANGED lockQueue
         ELSE /\ lockQueue' = Append(lockQueue, Task(g))
              /\ task' = [task EXCEPT ![g] = "waiting"]
              /\ UNCHANGED <<taskClient, lockHolder>>
    /\ ret' = NoReturn
    /\ UNCHANGED <<connVars, fwdVars, libVars, chanVars, fields, permit, cs, left, hist, rxOk>>

TaskLockGranted(g) ==
    /\ task[g] = "waiting"
    /\ LockGranted(Task(g))
    /\ lockQueue' = Tail(lockQueue)
    /\ Enter(g)
    /\ ret' = NoReturn
    /\ UNCHANGED <<connVars, fwdVars, libVars, chanVars, fields, permit, cs, left, hist, rxOk>>

\* start_internal, lines 337-341: StreamerClient::connect returns because the signal
\* it was given was notified (the permit is consumed); the guard drops
ConnectCancelled(g) ==
    /\ task[g] = "connecting"
    /\ permit[g]
    /\ permit' = [permit EXCEPT ![g] = FALSE]
    /\ task' = [task EXCEPT ![g] = "released"]
    /\ taskClient' = [taskClient EXCEPT ![g] = None]
    /\ lockHolder' = Nobody
    /\ ret' = NoReturn
    /\ UNCHANGED <<connVars, fwdVars, libVars, chanVars, fields, lockQueue, cs, left, hist, rxOk>>

\* start_internal, lines 337-341: StreamerClient::connect returns on its own (the
\* server closed the connection, or the connect attempts were exhausted)
ConnectEnded(g) ==
    /\ task[g] = "connecting"
    /\ ~permit[g]
    /\ task' = [task EXCEPT ![g] = "released"]
    /\ lockHolder' = Nobody
    /\ cs' = [c \in Callers |-> [cs[c] EXCEPT !.quiet = FALSE]]
    /\ taskClient' = [taskClient EXCEPT ![g] = None]
    /\ hist' = Mixed
    /\ ret' = NoReturn
    /\ UNCHANGED <<connVars, fwdVars, libVars, chanVars, fields, permit, lockQueue, left, rxOk>>

\* start_internal, lines 343-349: `*is_connected.write().await = false`
TaskMarkDisconnected(g) ==
    /\ task[g] = "released"
    /\ is_connected' = FALSE
    /\ task' = [task EXCEPT ![g] = "none"]
    /\ ret' = NoReturn
    /\ UNCHANGED <<connVars, fwdVars, libVars, chanVars, epics, client, shutdown_signal, price_rx, permit, taskClient,
                   unlocked, cs, left, hist, rxOk>>

\* ------------------------------------- the shared update channel
\* Raw updates the connections deliver, over one behaviour
MaxShared == 2

\* new(), line 104: the one channel of the streamer; the channels a StreamerClient
\* makes for its own subscriptions go by the generation of the client
SharedChannel == 0

\* (mutant: every forwarding task sends into a channel of its own client)
PerClientSender(g) == g

\* start_internal, lines 305-307: the forwarding task sends on a clone of price_tx
ForwarderSender(g) == SharedChannel

\* The StreamerClient of generation g is connected by some connection task.
Connecting(g) == \E t \in Gens : task[t] = "connecting" /\ taskClient[t] = g

\* Caller c owns the StreamerClient it built until line 320 moves it into the cell.
Owns(c, g) == cs[c].mine.id = g /\ cs[c].pc \in {"s_store", "s_wait"}

\* The StreamerClient of generation g is gone: replaced in the cell or cleared, and
\* not in the hands of the start_internal that built it.
Dropped(g) == client.id # g /\ \A c \in Callers : ~Owns(c, g)

\* The listener of the subscription of client g is gone with the client and its
\* connection: the item channel is closed.
ListenerGone(g) == Dropped(g) /\ ~Connecting(g)

shared_frame == <<connVars, fwdVars, libVars, fields, objects, unlocked, cs, left, hist, rxOk>>

\* The connection of client g hands a raw update to the listener of its
\* subscription, which puts it on the item channel (client.rs, lines 772-773).
Deliver(g) ==
    /\ Connecting(g)
    /\ sub_chan[g].conv # "none"
    /\ shared.n < MaxShared
    /\ shared' = [shared EXCEPT !.n = @ + 1]
    /\ sub_chan' = [sub_chan EXCEPT ![g].items = @ + 1]
    /\ ret' = NoReturn
    /\ UNCHANGED <<shared_frame, fwd_task>>

\* One round of the converter task of client g, client.rs lines 790-796: it takes a
\* raw update, converts it and sends the record on the typed channel; the send
\* fails, and the failure is ignored, when the forwarding task has ended.
Convert(g) ==
    /\ sub_chan[g].conv = "running"
    /\ sub_chan[g].items > 0
    /\ sub_chan' = [sub_chan EXCEPT
                      ![g].items = @ - 1,
                      ![g].typed = IF fwd_task[g] = "running" THEN @ + 1 ELSE @]
    /\ ret' = NoReturn
    /\ UNCHANGED <<shared_frame, fwd_task, shared>>

\* The converter task of client g ends, client.rs line 792: recv gives None on the
\* closed and drained item channel.
ConverterEnds(g) ==
    /\ sub_chan[g].conv = "running"
    /\ ListenerGone(g) /\ sub_chan[g].items = 0
    /\ sub_chan' = [sub_chan EXCEPT ![g].conv = "ended"]
    /\ ret' = NoReturn
    /\ UNCHANGED <<shared_frame, fwd_task, shared>>

\* One round of the forwarding task of client g, start_internal lines 308-313: it
\* takes a record from the typed channel and sends it on its clone of price_tx; when
\* the receiver of the shared channel was dropped the send fails and the task ends.
ForwardRecord(g) ==
    /\ fwd_task[g] = "running"
    /\ sub_chan[g].typed > 0
    /\ IF shared.rx_dropped
         THEN /\ fwd_task' = [fwd_task EXCEPT ![g] = "ended"]
              /\ sub_chan' = [sub_chan EXCEPT ![g].typed = 0]
              /\ UNCHANGED shared
         ELSE /\ shared' = [shared EXCEPT
                              !.queue = Append(@, [from |-> g,
                                                   chan |-> ForwarderSender(g)])]
              /\ sub_chan' = [sub_chan EXCEPT ![g].typed = @ - 1]
              /\ UNCHANGED fwd_task
    /\ ret' = NoReturn
    /\ UNCHANGED shared_frame

\* start_internal, lines 308 and 315: the converter task of the client has ended,
\* the typed channel is closed and drained, recv() yields None and the forwarding
\* task ends
ForwardingEnds(g) ==
    /\ fwd_task[g] = "running"
    /\ sub_chan[g].conv = "ended" /\ sub_chan[g].typed = 0
    /\ fwd_task' = [fwd_task EXCEPT ![g] = "ended"]
    /\ ret' = NoReturn
    /\ UNCHANGED <<shared_frame, shared, sub_chan>>

\* The holder of the receiver handed out by get_receiver takes the next record of
\* the shared channel; stored observes the client in the cell at that moment.
ReceiverRecv ==
    /\ ~price_rx /\ rxOk > 0 /\ ~shared.rx_dropped
    /\ shared.queue # <<>>
    /\ Head(shared.queue).chan = SharedChannel
    /\ shared' = [shared EXCEPT
                    !.queue = Tail(@),
                    !.got = Append(@, [from |-> Head(shared.queue).from,
                                       stored |-> client.id])]
    /\ ret' = NoReturn
    /\ UNCHANGED <<shared_frame, fwd_task, sub_chan>>

\* The holder of the receiver handed out by get_receiver drops it: the records
\* still on the shared channel go with it.
HolderDropsReceiver ==
    /\ ~price_rx /\ rxOk > 0 /\ ~shared.rx_dropped
    /\ shared' = [shared EXCEPT !.rx_dropped = TRUE, !.queue = <<>>]
    /\ ret' = NoReturn
    /\ UNCHANGED <<shared_frame, fwd_task, sub_chan>>

\* ------------------------------------------------- StreamerClient::connect
\* client.rs, line 47
MAX_CONNECTION_ATTEMPTS == 3
\* client.rs, line 1181: the backoff grows by 200 * retry_counter, capped at 5000 ms
BackoffStepMillis == 200
BackoffCapMillis == 5000

\* The two Lightstreamer connections of a StreamerClient.
Classes == {"Market", "Price"}

\* The text connect_client looks for in a failed attempt's error, line 1167.
NoMoreRequests == "No more requests to fulfill"

\* Debug texts of the errors connect_direct may fail with, as sequences of fragments.
ErrorTexts ==
    { <<"No more requests to fulfill">>,
      <<"Sync error: ", "No more requests to fulfill", " (code 8)">>,
      <<"Connection refused">>,
      <<"No more requests">> }

\* What one connect_direct call returns.
Connected == [ok |-> TRUE, msg |-> <<>>]
Failure(m) == [ok |-> FALSE, msg |-> m]
NoOutcome == [ok |-> FALSE, msg |-> <<>>]
Outcomes == {Connected} \cup {Failure(m) : m \in ErrorTexts}

\* A connection class connect has spawned no task for.  attempts, failed, slept,
\* last, transports and flagged observe the run: connect_direct calls made, calls
\* that failed without the graceful text, the delays slept, what the last call
\* returned, the forced transport of the handle at each call, and the subscription
\* flag of the class as connect read it.
NotSpawned == [pc |-> "none", retry_counter |-> 0, retry_interval_millis |-> 0,
               result |-> "none", attempts |-> 0, failed |-> 0, slept |-> <<>>,
               last |-> NoOutcome, transports |-> <<>>, flagged |-> FALSE]

\* StreamerClient::new, lines 695-707: set_forced_transport(Some(WsStreaming)) on
\* both handles
ForcedAtNew == "WsStreaming"

\* (mutant: a subscribe call leaves the handle without a forced transport)
ClearedBySubscribe(t) == "None"

\* set_forced_transport(Some(Transport::WsStreaming)), lines 782-784, 858-860,
\* 932-934 and 1022-1024
ForcedBySubscribe(t) == "WsStreaming"

\* No subscribe or disconnect call in flight.  n is disconnect's counter of handles
\* it disconnected, kind the kind of subscription a subscribe call is making.
IdleCall == [op |-> "none", pc |-> "idle", k |-> "none", n |-> 0, kind |-> "none"]
NoCallReturned == <<"none", "none", 0>>

\* StreamerClient::new, lines 674-718, before any connect
StreamerNew ==
    /\ has_subs = [k \in Classes |-> FALSE]
    /\ connect_pc = "new"
    /\ connect_result = "none"
    /\ run = [k \in Classes |-> NotSpawned]
    /\ signalled = FALSE
    /\ handle = [k \in Classes |-> "free"]
    /\ call = IdleCall
    /\ mret = NoCallReturned
    /\ forced_transport = [k \in Classes |-> ForcedAtNew]
    /\ subsc = <<>>
    /\ chans = <<>>
    /\ nUpdates = 0
    /\ registered = [k \in Classes |-> <<>>]

\* str::contains on the error text
Contains(msg, fragment) == \E i \in DOMAIN msg : msg[i] = fragment

Min(a, b) == IF a < b THEN a ELSE b

\* (mutant: the loop admits one attempt more)
LoopCondInclusive(rc) == rc <= MAX_CONNECTION_ATTEMPTS

\* connect_client, line 1151: `while retry_counter < MAX_CONNECTION_ATTEMPTS`
LoopCond(rc) == rc < MAX_CONNECTION_ATTEMPTS

\* (mutant: no error text is taken for graceful)
NeverGraceful(msg) == FALSE

\* connect_client, line 1167: `error_msg.contains("No more requests to fulfill")`
Graceful(msg) == Contains(msg, NoMoreRequests)

\* connect_client, line 1177: `if retry_counter < MAX_CONNECTION_ATTEMPTS - 1`
MayRetry(rc) == rc < MAX_CONNECTION_ATTEMPTS - 1

\* (mutant: the increment is not capped and jumps past the cap)
NextIntervalUncapped(interval, rc) == interval + BackoffStepMillis * rc

\* (mutant: the retry index counted from one)
NextIntervalOneBased(interval, rc) ==
    Min(interval + BackoffStepMillis * (rc + 1), BackoffCapMillis)

\* connect_client, lines 1180-1181
NextInterval(interval, rc) == Min(interval + BackoffStepMillis * rc, BackoffCapMillis)

\* (mutant: the run is taken for exhausted one failure early)
ExceededEarly(rc) == rc >= MAX_CONNECTION_ATTEMPTS - 1

\* connect_client, line 1197: `if retry_counter >= MAX_CONNECTION_ATTEMPTS`
Exceeded(rc) == rc >= MAX_CONNECTION_ATTEMPTS

\* connect_client, lines 1197-1209: after the loop
AfterLoop(r) ==
    [r EXCEPT !.pc = "returned",
              !.result = IF Exceeded(r.retry_counter) THEN "Err" ELSE "Ok"]

\* connect_client, lines 1151-1153: the loop test, then either `client.lock().await`
\* for the next attempt or the code after the loop
LoopHead(r) ==
    IF LoopCond(r.retry_counter)
      THEN [r EXCEPT !.pc = "lock"]
      ELSE AfterLoop(r)

\* connect_client, lines 1153-1154: the handle is locked, connect_direct is called
\* on it with the forced transport t it has
Granted(r, t) ==
    [r EXCEPT !.pc = "connect_direct", !.attempts = r.attempts + 1,
              !.transports = Append(r.transports, t)]

\* (mutant: the handle is taken without regard to its holder)
HandleAlwaysFree(h) == TRUE

\* tokio::sync::Mutex::lock on a handle held by h
HandleFree(h) == h = "free"

\* A step of the connect_client task of class k that leaves its locals as r.  The
\* guard of an attempt that was in flight drops: the handle passes to the call
\* waiting for it, if any (the Mutex is fair).  A task that then asks for the handle
\* gets it when it is free.
TaskMoves(k, r) ==
    LET held == run[k].pc = "connect_direct"
        passes == held /\ call.pc = "wait" /\ call.k = k
        h == IF held THEN (IF passes THEN call.op ELSE "free") ELSE handle[k]
        grant == r.pc = "lock" /\ HandleFree(h)
    IN /\ run' = [run EXCEPT ![k] = IF grant THEN Granted(r, forced_transport[k]) ELSE r]
       /\ handle' = [handle EXCEPT ![k] = IF grant THEN "connect" ELSE h]
       /\ call' = IF passes THEN [call EXCEPT !.pc = "hold"] ELSE call

\* A subscribe or disconnect call asks for the handle of class k, with rec its
\* locals: `client.lock().await`, lines 781, 857, 931, 1021, 1223 and 1230.
MethodLocks(k, rec) ==
    IF HandleFree(handle[k])
      THEN /\ handle' = [handle EXCEPT ![k] = rec.op]
           /\ call' = [rec EXCEPT !.pc = "hold", !.k = k]
      ELSE /\ call' = [rec EXCEPT !.pc = "wait", !.k = k]
           /\ UNCHANGED handle

\* The holder of handle hs[k] after the call's guard on it dropped: a connect_client
\* task waiting for it gets it.
Released(hs, k) ==
    [hs EXCEPT ![k] = IF run[k].pc = "lock" THEN "connect" ELSE "free"]
RunAfterRelease(k, t) ==
    [run EXCEPT ![k] = IF run[k].pc = "lock" THEN Granted(run[k], t) ELSE run[k]]

\* connect_client, lines 1160-1194, on an attempt that returned out
AfterAttempt(r, out) ==
    IF out.ok
      THEN AfterLoop([r EXCEPT !.last = out])
      ELSE IF Graceful(out.msg)
        THEN [r EXCEPT !.last = out, !.pc = "returned", !.result = "Ok"]
        ELSE IF MayRetry(r.retry_counter)
          THEN [r EXCEPT !.last = out, !.pc = "sleep", !.failed = r.failed + 1]
          ELSE LoopHead([r EXCEPT !.last = out, !.failed = r.failed + 1,
                                  !.retry_counter = r.retry_counter + 1])

\* (mutant: only a failure of every connection counts)
HasErrorOnlyIfAll == \A k \in Classes : run[k].result \in {"Err", "Panicked"}

\* (mutant: a panicked task is not counted as an error)
HasErrorNoPanic == \E k \in Classes : run[k].result = "Err"

\* connect, lines 1114-1133: join_all's results folded into has_error; a task ends
\* with Ok(Ok), Ok(Err) or, when it panicked, Err(JoinError)
HasError == \E k \in Classes : run[k].result \in {"Err", "Panicked"}

\* (mutant: every connection class is started)
SelectedAlways(k) == TRUE

\* connect, lines 1075 and 1090: a class is connected only when it has subscriptions
Selected(k) == has_subs[k]

\* connect, lines 1062-1108: one connect_client task per subscribed class; with
\* none, Ok at once
Connect ==
    /\ connect_pc = "new"
    /\ call = IdleCall
    /\ IF \A k \in Classes : ~Selected(k)
         THEN /\ connect_pc' = "done"
              /\ connect_result' = "Ok"
              /\ run' = [k \in Classes |-> [run[k] EXCEPT !.flagged = has_subs[k]]]
         ELSE /\ connect_pc' = "join_all"
              /\ run' = [k \in Classes |->
                           IF Selected(k)
                             THEN [NotSpawned EXCEPT !.pc = "spawned",
                                                     !.flagged = has_subs[k]]
                             ELSE [run[k] EXCEPT !.flagged = has_subs[k]]]
              /\ UNCHANGED connect_result
    /\ UNCHANGED <<dynVars, fwdVars, libVars, forced_transport, has_subs, signalled, handle, call, mret>>

\* connect_client, lines 1148-1155: the task starts and makes its first attempt
RunStart(k) ==
    /\ run[k].pc = "spawned"
    /\ TaskMoves(k, LoopHead(run[k]))
    /\ UNCHANGED <<dynVars, fwdVars, libVars, forced_transport, has_subs, connect_pc, connect_result, signalled, mret>>

\* connect_client, lines 1152-1194: connect_direct returns out
ConnectDirectReturns(k, out) ==
    /\ run[k].pc = "connect_direct"
    /\ TaskMoves(k, AfterAttempt(run[k], out))
    /\ UNCHANGED <<dynVars, fwdVars, libVars, forced_transport, has_subs, connect_pc, connect_result, signalled, mret>>

\* connect, lines 1127-1130: a connection task panics inside connect_direct; its
\* JoinHandle then yields Err(JoinError)
TaskPanics(k) ==
    /\ run[k].pc = "connect_direct"
    /\ TaskMoves(k, [run[k] EXCEPT !.pc = "returned", !.result = "Panicked"])
    /\ UNCHANGED <<dynVars, fwdVars, libVars, forced_transport, has_subs, connect_pc, connect_result, signalled, mret>>

\* connect_client, lines 1178-1182 and 1151-1155: the backoff sleep ends, the
\* interval and the counter advance, the loop goes round
SleepDone(k) ==
    /\ run[k].pc = "sleep"
    /\ TaskMoves(k, LoopHead([run[k] EXCEPT
                    !.slept = Append(run[k].slept, run[k].retry_interval_millis),
                    !.retry_interval_millis =
                        NextInterval(run[k].retry_interval_millis, run[k].retry_counter),
                    !.retry_counter = run[k].retry_counter + 1]))
    /\ UNCHANGED <<dynVars, fwdVars, libVars, forced_transport, has_subs, connect_pc, connect_result, signalled, mret>>

\* connect, lines 1111-1140: every task has ended
JoinAll ==
    /\ connect_pc = "join_all"
    /\ \A k \in Classes : run[k].pc \in {"none", "returned"}
    /\ connect_pc' = "done"
    /\ connect_result' = IF HasError THEN "Err" ELSE "Ok"
    /\ UNCHANGED <<dynVars, fwdVars, libVars, forced_transport, has_subs, run, signalled, handle, call, mret>>

\* The caller drops the future of connect while it waits at join_all, line 1112 (a
\* timeout or a select around it): the spawned tasks run on, detached.
ConnectDropped ==
    /\ connect_pc = "join_all"
    /\ connect_pc' = "dropped"
    /\ UNCHANGED <<dynVars, fwdVars, libVars, forced_transport, has_subs, connect_result, run, signalled, handle, call, mret>>

\* The owner of the shutdown signal given to connect notifies it.
RaiseSignal ==
    /\ connect_pc = "join_all"
    /\ ~signalled
    /\ signalled' = TRUE
    /\ UNCHANGED <<dynVars, fwdVars, libVars, forced_transport, has_subs, connect_pc, connect_result, run, handle, call, mret>>

\* disconnect, lines 1219-1223: the call asks for the market handle
Disconnect ==
    /\ connect_pc \in {"new", "dropped", "done"}
    /\ call = IdleCall
    /\ MethodLocks("Market", [IdleCall EXCEPT !.op = "disconnect"])
    /\ UNCHANGED <<dynVars, fwdVars, libVars, forced_transport, has_subs, connect_pc, connect_result, run, signalled, mret>>

\* disconnect, lines 1224-1230: the market handle is disconnected and its guard
\* drops, the call asks for the price handle
DisconnectMarket ==
    /\ call.op = "disconnect" /\ call.pc = "hold" /\ call.k = "Market"
    /\ run' = RunAfterRelease("Market", forced_transport["Market"])
    /\ IF HandleFree(handle["Price"])
         THEN /\ handle' = [Released(handle, "Market") EXCEPT !["Price"] = "disconnect"]
              /\ call' = [call EXCEPT !.k = "Price", !.n = call.n + 1]
         ELSE /\ handle' = Released(handle, "Market")
              /\ call' = [call EXCEPT !.pc = "wait", !.k = "Price", !.n = call.n + 1]
    /\ UNCHANGED <<dynVars, fwdVars, libVars, forced_transport, has_subs, connect_pc, connect_result, signalled, mret>>

\* disconnect, lines 1231-1237: the price handle is disconnected, the call returns Ok
DisconnectPrice ==
    /\ call.op = "disconnect" /\ call.pc = "hold" /\ call.k = "Price"
    /\ handle' = Released(handle, "Price")
    /\ run' = RunAfterRelease("Price", forced_transport["Price"])
    /\ call' = IdleCall
    /\ mret' = <<"disconnect", "Ok", call.n + 1>>
    /\ UNCHANGED <<dynVars, fwdVars, libVars, forced_transport, has_subs, connect_pc, connect_result, signalled>>

\* ------------------------------------------- subscriptions and forwarding
\* Subscribe calls made on the client, and raw updates arriving over all of them.
MaxSubs == 2
MaxUpdates == 3

\* market_subscribe, trade_subscribe, account_subscribe, price_subscribe
Kinds == {"market", "trade", "account", "price"}

\* (mutant: price subscriptions registered on the market connection)
AlwaysMarket(kind) == "Market"

\* The connection class a subscription of the kind is registered on: lines 776, 852,
\* 926 (market_streamer_client) and 1016 (price_streamer_client).
ClassOf(kind) == IF kind = "price" THEN "Price" ELSE "Market"

\* The wire tokens of DLG_FLAG with the variant of DealingFlag each one gives,
\* price.rs lines 604-613.
DealingFlagOf ==
    [t \in {"CLOSED", "CALL", "DEAL", "EDIT", "CLOSINGONLY", "DEALNOEDIT", "AUCTION",
             "AUCTIONNOEDIT", "SUSPEND"} |->
       CASE t = "CLOSED" -> "Closed"
         [] t = "CALL" -> "Call"
         [] t = "DEAL" -> "Deal"
         [] t = "EDIT" -> "Edit"
         [] t = "CLOSINGONLY" -> "ClosingOnly"
         [] t = "DEALNOEDIT" -> "DealNoEdit"
         [] t = "AUCTION" -> "Auction"
         [] t = "AUCTIONNOEDIT" -> "AuctionNoEdit"
         [] OTHER -> "Suspend"]

DealingFlags == DOMAIN DealingFlagOf

\* Numeric texts with the value str::parse::<f64> gives them, in tenths; every
\* other text of the model is one str::parse::<f64> rejects.
FloatOf ==
    [t \in {"100.5", "0", "-1e1"} |->
       CASE t = "100.5" -> 1005
         [] t = "0" -> 0
         [] OTHER -> -100]

\* Option<f64> and Option<DealingFlag>
NoValue == [some |-> FALSE, v |-> 0]
Some(x) == [some |-> TRUE, v |-> x]

\* Option<String>
NoText == [some |-> FALSE, v |-> ""]
SomeText(t) == [some |-> TRUE, v |-> t]

\* A field map (HashMap<String, Option<String>>) is a function from the keys it
\* holds to NoText (a null value) or SomeText of the text.
\* get_field, price.rs line 590 and account.rs line 898: get(key).cloned().flatten()
GetField(fields_map, key) ==
    IF key \in DOMAIN fields_map THEN fields_map[key] ELSE NoText

\* (mutant: a numeric field that is not there decodes to zero)
ParseFloatZero(g) ==
    IF ~g.some \/ g.v = ""
      THEN [ok |-> TRUE, val |-> Some(0)]
      ELSE IF g.v \in DOMAIN FloatOf
        THEN [ok |-> TRUE, val |-> Some(FloatOf[g.v])]
        ELSE [ok |-> FALSE, val |-> NoValue]

\* parse_float, price.rs lines 593-601 and account.rs lines 900-909, on what
\* get_field gave for the key
ParseFloat(g) ==
    IF ~g.some \/ g.v = ""
      THEN [ok |-> TRUE, val |-> NoValue]
      ELSE IF g.v \in DOMAIN FloatOf
        THEN [ok |-> TRUE, val |-> Some(FloatOf[g.v])]
        ELSE [ok |-> FALSE, val |-> NoValue]

\* (mutant: an unknown DLG_FLAG token decodes to the default variant)
ParseDealingFlagDefault(g) ==
    IF ~g.some
      THEN [ok |-> TRUE, val |-> NoValue]
      ELSE IF g.v \in DealingFlags
        THEN [ok |-> TRUE, val |-> Some(DealingFlagOf[g.v])]
        ELSE [ok |-> TRUE, val |-> Some("Closed")]

\* create_price_fields, price.rs lines 604-616: the dealing flag
ParseDealingFlag(g) ==
    IF ~g.some
      THEN [ok |-> TRUE, val |-> NoValue]
      ELSE IF g.v \in DealingFlags
        THEN [ok |-> TRUE, val |-> Some(DealingFlagOf[g.v])]
        ELSE [ok |-> FALSE, val |-> NoValue]

\* The keys create_price_fields decodes with parse_float, price.rs lines 619-724
PriceNumericKeys ==
    {"MID_OPEN", "HIGH", "LOW", "BIDPRICE1", "BIDPRICE2", "BIDPRICE3", "BIDPRICE4",
    "BIDPRICE5", "ASKPRICE1", "ASKPRICE2", "ASKPRICE3", "ASKPRICE4", "ASKPRICE5",
    "BIDSIZE1", "BIDSIZE2", "BIDSIZE3", "BIDSIZE4", "BIDSIZE5", "ASKSIZE1",
    "ASKSIZE2", "ASKSIZE3", "ASKSIZE4", "ASKSIZE5", "C1BIDSIZE1", "C1BIDSIZE2",
    "C1BIDSIZE3", "C1BIDSIZE4", "C1BIDSIZE5", "C2BIDSIZE1", "C2BIDSIZE2",
    "C2BIDSIZE3", "C2BIDSIZE4", "C2BIDSIZE5", "C3BIDSIZE1", "C3BIDSIZE2",
    "C3BIDSIZE3", "C3BIDSIZE4", "C3BIDSIZE5", "C4BIDSIZE1", "C4BIDSIZE2",
    "C4BIDSIZE3", "C4BIDSIZE4", "C4BIDSIZE5", "C5BIDSIZE1", "C5BIDSIZE2",
    "C5BIDSIZE3", "C5BIDSIZE4", "C5BIDSIZE5", "C1ASKSIZE1", "C1ASKSIZE2",
    "C1ASKSIZE3", "C1ASKSIZE4", "C1ASKSIZE5", "C2ASKSIZE1", "C2ASKSIZE2",
    "C2ASKSIZE3", "C2ASKSIZE4", "C2ASKSIZE5", "C3ASKSIZE1", "C3ASKSIZE2",
    "C3ASKSIZE3", "C3ASKSIZE4", "C3ASKSIZE5", "C4ASKSIZE1", "C4ASKSIZE2",
    "C4ASKSIZE3", "C4ASKSIZE4", "C4ASKSIZE5", "C5ASKSIZE1", "C5ASKSIZE2",
    "C5ASKSIZE3", "C5ASKSIZE4", "C5ASKSIZE5", "TIMESTAMP"}

\* The keys create_price_fields passes through with get_field, lines 622-623, 650-655
PriceTextKeys ==
    {"BIDQUOTEID", "ASKQUOTEID", "CURRENCY0", "CURRENCY1", "CURRENCY2", "CURRENCY3",
     "CURRENCY4", "CURRENCY5"}

\* The keys create_account_fields decodes with parse_float, account.rs lines 911-924
AccountNumericKeys ==
    {"PNL", "DEPOSIT", "AVAILABLE_CASH", "PNL_LR", "PNL_NLR", "FUNDS", "MARGIN",
     "MARGIN_LR", "MARGIN_NLR", "AVAILABLE_TO_DEAL", "EQUITY", "EQUITY_USED"}

\* The fields of a trade subscription, client.rs lines 834-838
TradeKeys == {"CONFIRMS", "OPU", "WOU"}

\* PriceFields::default(), AccountFields::default()
DefaultPriceFields ==
    [num |-> [k \in PriceNumericKeys |-> NoValue],
     text |-> [k \in PriceTextKeys |-> NoText],
     dealing_flag |-> NoValue]

DefaultAccountFields == [num |-> [k \in AccountNumericKeys |-> NoValue]]

DefaultTradeFields == [text |-> [k \in TradeKeys |-> NoText]]

\* create_price_fields, price.rs lines 586-727: the dealing flag comes first, then
\* the fields in order, and the first one that fails is the error returned
CreatePriceFields(fields_map) ==
    LET flag == ParseDealingFlag(GetField(fields_map, "DLG_FLAG"))
        num == [k \in PriceNumericKeys |-> ParseFloat(GetField(fields_map, k))]
    IN IF ~flag.ok
         THEN [ok |-> FALSE, err |-> "Unknown dealing flag", val |-> DefaultPriceFields]
         ELSE IF \E k \in PriceNumericKeys : ~num[k].ok
           THEN [ok |-> FALSE, err |-> "Failed to parse as float",
                 val |-> DefaultPriceFields]
           ELSE [ok |-> TRUE, err |-> "",
                 val |-> [num |-> [k \in PriceNumericKeys |-> num[k].val],
                          text |-> [k \in PriceTextKeys |-> GetField(fields_map, k)],
                          dealing_flag |-> flag.val]]

\* create_account_fields, account.rs lines 894-925
CreateAccountFields(fields_map) ==
    LET num == [k \in AccountNumericKeys |-> ParseFloat(GetField(fields_map, k))]
    IN IF \E k \in AccountNumericKeys : ~num[k].ok
         THEN [ok |-> FALSE, err |-> "Failed to parse as float",
               val |-> DefaultAccountFields]
         ELSE [ok |-> TRUE, err |-> "",
               val |-> [num |-> [k \in AccountNumericKeys |-> num[k].val]]]

\* The three fields of a trade update are opaque texts and pass through.
CreateTradeFields(fields_map) ==
    [ok |-> TRUE, err |-> "",
     val |-> [text |-> [k \in TradeKeys |-> GetField(fields_map, k)]]]

\* An ItemUpdate: the item name (Option<String>), the position of the item in the
\* subscription, the field map, the changed fields (HashMap<String, String>), and
\* whether it is part of the snapshot.
\* from_item_update, lines 567-571: the changed fields as a map of Some texts
ChangedFieldsMap(u) == [k \in DOMAIN u.changed_fields |-> SomeText(u.changed_fields[k])]

\* lines 557-558: item_name.clone().unwrap_or_default()
ItemName(u) == IF u.item_name.some THEN u.item_name.v ELSE ""

\* PriceData::default(), AccountData::default(), TradeData::default()
DefaultData(kind) ==
    CASE kind \in {"market", "price"} ->
           [item_name |-> "", item_pos |-> 0, fields |-> DefaultPriceFields,
            changed_fields |-> DefaultPriceFields, is_snapshot |-> FALSE]
      [] kind = "account" ->
           [item_name |-> "", item_pos |-> 0, fields |-> DefaultAccountFields,
            changed_fields |-> DefaultAccountFields, is_snapshot |-> FALSE]
      [] OTHER ->
           [item_name |-> "", item_pos |-> 0, fields |-> DefaultTradeFields,
            changed_fields |-> DefaultTradeFields, is_snapshot |-> FALSE]

\* from_item_update with the create_*_fields of the record type: the fields are
\* decoded first, then the changed fields; either error is the error returned
Decode(kind, u, f, c) ==
    IF ~f.ok THEN [ok |-> FALSE, err |-> f.err, data |-> DefaultData(kind)]
    ELSE IF ~c.ok THEN [ok |-> FALSE, err |-> c.err, data |-> DefaultData(kind)]
    ELSE [ok |-> TRUE, err |-> "",
          data |-> [item_name |-> ItemName(u), item_pos |-> u.item_pos,
                    fields |-> f.val, changed_fields |-> c.val,
                    is_snapshot |-> u.is_snapshot]]

\* PriceData::from_item_update, price.rs lines 556-583
PriceFromItemUpdate(u) ==
    Decode("price", u, CreatePriceFields(u.fields), CreatePriceFields(ChangedFieldsMap(u)))

\* AccountData::from_item_update, account.rs lines 858-886
AccountFromItemUpdate(u) ==
    Decode("account", u, CreateAccountFields(u.fields),
           CreateAccountFields(ChangedFieldsMap(u)))

\* TradeData's decoder is not among the sources: the field codec of the
\* specification, with the three trade fields as opaque texts.
TradeFromItemUpdate(u) ==
    Decode("trade", u, CreateTradeFields(u.fields), CreateTradeFields(ChangedFieldsMap(u)))

\* The decoder of each kind of subscription: market_subscribe and price_subscribe
\* use PriceData (client.rs lines 793, 1033), account_subscribe AccountData (line
\* 943), trade_subscribe TradeData (line 869).
FromItemUpdate(kind, u) ==
    CASE kind \in {"market", "price"} -> PriceFromItemUpdate(u)
      [] kind = "account" -> AccountFromItemUpdate(u)
      [] OTHER -> TradeFromItemUpdate(u)

\* (mutant: a failed decode keeps the item name and snapshot flag of the update)
FromKeepsHeader(kind, u) ==
    IF FromItemUpdate(kind, u).ok
      THEN FromItemUpdate(kind, u).data
      ELSE [DefaultData(kind) EXCEPT !.item_name = ItemName(u),
                                     !.is_snapshot = u.is_snapshot]

\* impl From<&ItemUpdate>: price.rs lines 729-733 (unwrap_or_default), account.rs
\* lines 928-932: the decoded record, or the default record when decoding failed
From(kind, u) ==
    IF FromItemUpdate(kind, u).ok THEN FromItemUpdate(kind, u).data ELSE DefaultData(kind)

\* What the forwarding task sends: the record (lines 793-794, 1033-1034), or its
\* fields for trade and account subscriptions (lines 869-870, 943-944)
Sent(kind, u) ==
    IF kind \in {"market", "price"} THEN From(kind, u) ELSE From(kind, u).fields

\* A raw update of the model, from the item name and the texts of its fields
Update(name, fields_map) ==
    [item_name |-> SomeText(name), item_pos |-> 1, fields |-> fields_map,
     changed_fields |-> <<>>, is_snapshot |-> TRUE]

\* The raw updates that arrive on subscriptions: one that every decoder takes, one
\* with a text that is no number, one with an unknown DLG_FLAG token.
RawUpdates ==
    { Update("A", [k \in {"MID_OPEN", "PNL", "DLG_FLAG"} |->
                     SomeText(IF k = "DLG_FLAG" THEN "DEAL" ELSE "100.5")]),
      Update("A", [k \in {"MID_OPEN", "PNL", "DLG_FLAG"} |->
                     SomeText(IF k = "DLG_FLAG" THEN "DEAL" ELSE "abc")]),
      Update("A", [k \in {"MID_OPEN", "DLG_FLAG"} |->
                     SomeText(IF k = "DLG_FLAG" THEN "deal" ELSE "")]) }

\* (mutant: a forwarding task that gives up on an update it cannot decode)
StopsOnDecodeError(kind, u) ==
    IF FromItemUpdate(kind, u).ok THEN "running" ELSE "ended"

\* The forwarding loop after an update, client.rs lines 792-795: it goes round
\* whatever the conversion gave and whatever send returned
ForwarderAfter(kind, u) == "running"

\* (mutant: a subscribe call hands out the channel of the call before it)
LastChannel(chs) == IF chs = <<>> THEN 1 ELSE Len(chs)

\* mpsc::unbounded_channel(), client.rs lines 789, 865, 939, 1029: a new channel
NewChannel(chs) == Len(chs) + 1

\* self.account_id of the client
AccountId == "ACC1"

\* The arguments of the subscribe calls: the EPICs, and the fields as the wire names
\* get_streaming_market_fields, get_streaming_price_fields and
\* get_streaming_account_data_fields give for the set.
EpicLists == {<<"A", "B">>, <<"A">>}

FieldSets(kind) ==
    CASE kind = "market" -> {{"BID", "OFFER"}, {"BID"}}
      [] kind = "price" -> {{"MID_OPEN", "DLG_FLAG"}}
      [] kind = "account" -> {{"PNL"}}
      [] OTHER -> {{}}

AllFieldSets == UNION {FieldSets(kind) : kind \in Kinds}

\* The texts IG_PRICING_ADAPTER may be set to
AdapterNames == {"QuoteAdapter"}

\* (mutant: trade subscriptions in MERGE mode like the others)
AlwaysMerge(kind) == "MERGE"

\* Subscription::new(mode, ..), lines 765, 843, 891, 1003
ModeOf(kind) == IF kind = "trade" THEN "DISTINCT" ELSE "MERGE"

\* set_data_adapter, lines 768, 845, 893 (None) and 1006-1009 (the value of
\* IG_PRICING_ADAPTER, or "Pricing" when the variable is not set)
DataAdapter(kind, env) ==
    IF kind = "price"
      THEN IF env.some THEN env ELSE SomeText("Pricing")
      ELSE NoText

\* The items of the subscription, as the parts joined by ":": lines 761-764
\* (MARKET:<epic>), 840 (TRADE:<account_id>), 889 (ACCOUNT:<account_id>), 992-995
\* (PRICE:<account_id>:<epic>).
ItemsOf(kind, epic_list) ==
    CASE kind = "market" -> [i \in DOMAIN epic_list |-> <<"MARKET", epic_list[i]>>]
      [] kind = "price" -> [i \in DOMAIN epic_list |-> <<"PRICE", AccountId, epic_list[i]>>]
      [] kind = "trade" -> << <<"TRADE", AccountId>> >>
      [] OTHER -> << <<"ACCOUNT", AccountId>> >>

\* The fields of the subscription: those asked for, or the fixed three of a trade
\* subscription (lines 834-838).
FieldsOf(kind, flds) == IF kind = "trade" THEN {"CONFIRMS", "OPU", "WOU"} ELSE flds

\* The Subscription a subscribe call builds, lines 760-769, 833-846, 887-894,
\* 990-1010.
Descriptor(kind, epic_list, flds, env) ==
    [mode |-> ModeOf(kind),
     items |-> ItemsOf(kind, epic_list),
     fields |-> FieldsOf(kind, flds),
     data_adapter |-> DataAdapter(kind, env),
     snapshot |-> "yes"]

\* The end of a subscribe call, lines 784-800, 861-873, 935-947, 1025-1043: the
\* subscription, with its listener, is registered on the handle of its class
\* (LightstreamerClient::subscribe), a typed channel is created and the forwarding
\* task is spawned.
Register(kind, epic_list, flds) ==
    /\ registered' = [registered EXCEPT ![ClassOf(kind)] = Append(@, Len(subsc) + 1)]
    /\ LET ch == NewChannel(chans) IN
         /\ subsc' = Append(subsc, [kind |-> kind, items |-> <<>>, seen |-> 0,
                                    open |-> TRUE, fwd |-> "running", ch |-> ch,
                                    desc |-> Descriptor(kind, epic_list, flds,
                                                        adapter_env)])
         /\ chans' = IF ch > Len(chans)
                       THEN Append(chans, [buf |-> <<>>, rx |-> TRUE])
                       ELSE chans

\* A subscribe call that succeeds, lines 752-803 (market), 827-876 (trade), 904-950
\* (account), 982-1046 (price): the flag of the class is set, the subscription is
\* built, gets its listener and is registered on the handle of the class, a typed
\* channel is created, and the forwarding task is spawned.  No connect is in flight
\* (the methods take &mut self), so the handle is free and is free again on return.
SubscribeCall(kind, epic_list, flds) ==
    /\ flds \in FieldSets(kind)
    /\ Len(subsc) < MaxSubs
    /\ connect_pc = "new" /\ call = IdleCall
    /\ has_subs' = [has_subs EXCEPT ![ClassOf(kind)] = TRUE]
    /\ forced_transport' = [forced_transport EXCEPT
                              ![ClassOf(kind)] = ForcedBySubscribe(@)]
    /\ Register(kind, epic_list, flds)
    /\ UNCHANGED <<dynVars, libVars, connect_pc, connect_result, run, signalled, handle,
                   call, mret, nUpdates>>

\* The fields of a subscribe call for one field
OneField(kind) == CHOOSE f \in FieldSets(kind) : "OFFER" \notin f

\* The subscribe call of the kind for one EPIC and one field
SubscribeOk(kind) == SubscribeCall(kind, <<"A">>, OneField(kind))

\* A subscribe call that fails while building the subscription (`?` at lines 765-768
\* and 776-778): the flag of the class was set at line 758, nothing else is there.
SubscribeErr(kind) ==
    /\ Len(subsc) < MaxSubs
    /\ connect_pc = "new" /\ call = IdleCall
    /\ has_subs' = [has_subs EXCEPT ![ClassOf(kind)] = TRUE]
    /\ UNCHANGED <<dynVars, fwdVars, libVars, forced_transport, connect_pc, connect_result, run, signalled, handle,
                   call, mret>>

\* market_subscribe, trade_subscribe, account_subscribe (lines 758, 831, 909) and
\* price_subscribe (line 988), step by step beside a connection that may hold the
\* handle: the call marks its connection class as subscribed, builds the
\* subscription, then locks the handle of the class (lines 781, 857, 931, 1021).  The
\* methods take &mut self: one runs at a time, and none while connect is awaited;
\* they can be called before connect, after it returned, and after its future was
\* dropped.
Subscribe(kind) ==
    /\ Len(subsc) < MaxSubs
    /\ connect_pc \in {"new", "done", "dropped"}
    /\ call = IdleCall
    /\ has_subs' = [has_subs EXCEPT ![ClassOf(kind)] = TRUE]
    /\ MethodLocks(ClassOf(kind), [IdleCall EXCEPT !.op = "subscribe", !.kind = kind])
    /\ UNCHANGED <<dynVars, fwdVars, libVars, forced_transport, connect_pc, connect_result,
                   run, signalled, mret>>

\* market_subscribe, lines 781-803: with the handle locked the transport is forced
\* and the subscription registered, the guard drops, the channel is created, the
\* forwarding task spawned, and the call returns the receiver
SubscribeRegistered ==
    /\ call.op = "subscribe" /\ call.pc = "hold"
    /\ forced_transport' = [forced_transport EXCEPT
                              ![call.k] = ForcedBySubscribe(forced_transport[call.k])]
    /\ Register(call.kind, <<"A">>, OneField(call.kind))
    /\ handle' = Released(handle, call.k)
    /\ run' = RunAfterRelease(call.k, forced_transport'[call.k])
    /\ call' = IdleCall
    /\ mret' = <<"subscribe", "Ok", 0>>
    /\ UNCHANGED <<dynVars, libVars, nUpdates, has_subs, connect_pc, connect_result,
                   signalled>>

\* The listener of subscription s gets raw update u from the connection and puts it
\* on the item channel (ChannelSubscriptionListener, lines 772-773).
Arrive(s, u) ==
    /\ s \in DOMAIN subsc
    /\ subsc[s].open
    /\ nUpdates < MaxUpdates
    /\ nUpdates' = nUpdates + 1
    /\ subsc' = [subsc EXCEPT ![s].seen = subsc[s].seen + 1,
                              ![s].items = Append(subsc[s].items,
                                                  [n |-> subsc[s].seen + 1, raw |-> u])]
    /\ UNCHANGED <<dynVars, connVars, libVars, chans, registered>>

\* One round of the forwarding task of subscription s, lines 790-796: receive a raw
\* update, convert it, send the record; a send to a dropped receiver fails and the
\* failure is ignored.
Forward(s) ==
    /\ s \in DOMAIN subsc
    /\ subsc[s].fwd = "running"
    /\ subsc[s].items # <<>>
    /\ LET it == Head(subsc[s].items)
           c == subsc[s].ch
       IN /\ subsc' = [subsc EXCEPT ![s].items = Tail(subsc[s].items),
                                    ![s].fwd = ForwarderAfter(subsc[s].kind, it.raw)]
          /\ chans' = IF chans[c].rx
                        THEN [chans EXCEPT ![c].buf =
                                Append(chans[c].buf,
                                       [from |-> s, n |-> it.n, raw |-> it.raw,
                                        rec |-> Sent(subsc[s].kind, it.raw)])]
                        ELSE chans
    /\ UNCHANGED <<dynVars, connVars, libVars, nUpdates, registered>>

\* The listener of subscription s is dropped with its connection: the item channel
\* closes.
ListenerClosed(s) ==
    /\ s \in DOMAIN subsc
    /\ subsc[s].open
    /\ subsc' = [subsc EXCEPT ![s].open = FALSE]
    /\ UNCHANGED <<dynVars, connVars, libVars, chans, nUpdates, registered>>

\* The forwarding task of s ends, line 792: recv gives None on a closed and drained
\* item channel.
ForwarderEnds(s) ==
    /\ s \in DOMAIN subsc
    /\ subsc[s].fwd = "running"
    /\ ~subsc[s].open /\ subsc[s].items = <<>>
    /\ subsc' = [subsc EXCEPT ![s].fwd = "ended"]
    /\ UNCHANGED <<dynVars, connVars, libVars, chans, nUpdates, registered>>

\* The consumer drops the receiver a subscribe call returned.
ReceiverDropped(c) ==
    /\ c \in DOMAIN chans
    /\ chans[c].rx
    /\ chans' = [chans EXCEPT ![c].rx = FALSE]
    /\ UNCHANGED <<dynVars, connVars, libVars, subsc, nUpdates, registered>>

\* ------------------------------------------------------- the field codec
\* The texts a numeric field of a raw update may carry, and those of DLG_FLAG.
NumericTexts == {"", "100.5", "0", "-1e1", "abc", " 7"}

FlagTexts == DealingFlags \cup {"", "deal", "OPEN"}

\* What a field map may hold under a key: nothing (the key is missing), a null
\* value, or one of the texts.
Missing == [some |-> FALSE, v |-> "missing"]

Entries(texts) == {Missing, NoText} \cup {SomeText(t) : t \in texts}

\* The field map that holds entry e[k] under every key k that is not missing
FieldMap(e) == [k \in {j \in DOMAIN e : e[j] # Missing} |-> e[k]]

\* The raw updates the codec is applied to.
DecodeInputs ==
    { [item_name |-> n,
       fields |-> FieldMap([k \in {"MID_OPEN", "HIGH", "PNL", "DLG_FLAG"} |->
                              CASE k = "MID_OPEN" -> a
                                [] k = "HIGH" -> b
                                [] k = "PNL" -> c
                                [] OTHER -> d]),
       changed_fields |-> ch, item_pos |-> 1, is_snapshot |-> TRUE] :
         n \in {NoText, SomeText("A")},
         a \in Entries(NumericTexts), b \in Entries({"", "0"}),
         c \in Entries(NumericTexts), d \in Entries(FlagTexts),
         ch \in {<<>>, [k \in {"MID_OPEN"} |-> "abc"], [k \in {"PNL"} |-> "0"]} }

NotDecoded == [kind |-> "none", res |-> [ok |-> FALSE, err |-> "", data |-> <<>>]]

\* No raw update has been handed to the codec, IG_PRICING_ADAPTER is not set.
CodecIdle ==
    /\ item_update = Update("A", <<>>)
    /\ decoded = NotDecoded

\* ------------------------------------------------------------ Position::pnl
\* Sizes and levels of a position and market prices, as whole numbers of units.
MaxSize == 3
MaxLevel == 2

\* Direction::Buy, Direction::Sell
Directions == {"BUY", "SELL"}

\* The positions pnl() is called on: direction, size and level of the position,
\* bid and offer of its market, and the cached pnl.
Positions ==
    [direction : Directions, size : 0..MaxSize, level : 0..MaxLevel,
     bid : {NoValue} \cup {Some(x) : x \in 0..MaxLevel},
     offer : {NoValue} \cup {Some(x) : x \in 0..MaxLevel},
     pnl : {NoValue, Some(0), Some(7)}]

\* Option::unwrap_or
UnwrapOr(o, d) == IF o.some THEN o.v ELSE d

\* (mutant: pnl() that always calculates)
PnlIgnoresCache(p) ==
    LET value == p.size * p.level IN
      IF p.direction = "BUY"
        THEN p.size * UnwrapOr(p.bid, value) - value
        ELSE value - p.size * UnwrapOr(p.offer, value)

\* Position::pnl, account.rs lines 269-286
Pnl(p) ==
    IF p.pnl.some
      THEN p.pnl.v
      ELSE LET value == p.size * p.level IN
             IF p.direction = "BUY"
               THEN LET current_value == p.size * UnwrapOr(p.bid, value)
                    IN current_value - value
               ELSE LET current_value == p.size * UnwrapOr(p.offer, value)
                    IN value - current_value

NoPosition ==
    [direction |-> "BUY", size |-> 0, level |-> 0, bid |-> NoValue, offer |-> NoValue,
     pnl |-> NoValue]

\* No call of pnl() has returned yet.
NoPnl == [some |-> FALSE, v |-> 0, of |-> NoPosition]

PnlIdle ==
    /\ position = NoPosition
    /\ pnl_out = NoPnl

\* position.pnl(): the value returned, and the position it was called on
CallPnl ==
    /\ pnl_out' = [some |-> TRUE, v |-> Pnl(position), of |-> position]
    /\ UNCHANGED <<dynVars, connVars, fwdVars, item_update, decoded, adapter_env, position,
                   rt, pg>>

\* Position::update_pnl, account.rs lines 314-329: the calculated value
UpdatedPnl(p) ==
    LET value == p.size * p.level IN
      IF p.direction = "BUY"
        THEN LET current_value == p.size * UnwrapOr(p.bid, value)
             IN current_value - value
        ELSE LET current_value == p.size * UnwrapOr(p.offer, value)
             IN value - current_value

\* position.update_pnl(): self.pnl = Some(pnl)
CallUpdatePnl ==
    /\ position' = [position EXCEPT !.pnl = Some(UpdatedPnl(position))]
    /\ UNCHANGED <<dynVars, connVars, fwdVars, item_update, decoded, adapter_env, pnl_out,
                   rt, pg>>

\* ------------------------------------- get_order_confirmation_w_retry
\* The retries argument goes up to MaxRetries.
MaxRetries == 3

\* The delay_ms argument
Delays == {0, 250}

\* What one get_order_confirmation request returns: the confirmation, or an error
RequestResults == {"Ok", "Err(Timeout)", "Err(NotFound)"}

\* No call yet.  trace is what a call did so far, in order: its requests with what
\* each returned, and its sleeps with their length.
RetryNotCalled ==
    [pc |-> "idle", retries |-> 0, delay_ms |-> 0, attempts |-> 0, trace |-> <<>>,
     result |-> "none"]

RetryIdle == rt = RetryNotCalled

Requested(out) == [ev |-> "request", out |-> out, ms |-> 0]
Slept(ms) == [ev |-> "sleep", out |-> "", ms |-> ms]

\* (mutant: the call gives up one failure early)
GivesUpEarly(attempts, retries) == attempts >= retries

\* line 573: `if attempts > retries { return Err(e) }`
GivesUp(attempts, retries) == attempts > retries

\* get_order_confirmation_w_retry(deal_reference, retries, delay_ms), lines 562-568:
\* attempts is 0 and the loop is entered
RetryCall(retries, delay_ms) ==
    /\ rt.pc = "idle"
    /\ rt' = [RetryNotCalled EXCEPT !.pc = "request", !.retries = retries,
                                    !.delay_ms = delay_ms]
    /\ UNCHANGED <<dynVars, connVars, fwdVars, item_update, decoded, adapter_env, position,
                   pnl_out, pg>>

\* lines 569-577: the request returns; Ok is returned at once, an error is counted
\* and is returned when the count is over retries
RequestReturns(out) ==
    /\ rt.pc = "request"
    /\ LET tr == Append(rt.trace, Requested(out)) IN
         IF out = "Ok"
           THEN rt' = [rt EXCEPT !.pc = "done", !.trace = tr, !.result = "Ok"]
           ELSE IF GivesUp(rt.attempts + 1, rt.retries)
             THEN rt' = [rt EXCEPT !.pc = "done", !.trace = tr, !.result = out,
                                   !.attempts = rt.attempts + 1]
             ELSE rt' = [rt EXCEPT !.pc = "sleep", !.trace = tr,
                                   !.attempts = rt.attempts + 1]
    /\ UNCHANGED <<dynVars, connVars, fwdVars, item_update, decoded, adapter_env, position,
                   pnl_out, pg>>

\* lines 576-580: sleep(Duration::from_millis(delay_ms)) is over, the loop goes round
RetrySleepOver ==
    /\ rt.pc = "sleep"
    /\ rt' = [rt EXCEPT !.pc = "request", !.trace = Append(rt.trace, Slept(rt.delay_ms))]
    /\ UNCHANGED <<dynVars, connVars, fwdVars, item_update, decoded, adapter_env, position,
                   pnl_out, pg>>

\* No raw update has been handed to the codec, IG_PRICING_ADAPTER is not set, no
\* position is looked at and no confirmation is asked for.
\* ------------------------------------------------ Client::get_transactions
\* Requests one call may make here
MaxPageRequests == 4

\* The totalPages values of a response (PageData::total_pages is an i32)
TotalPagesValues == {-1, 0, 1, 2, 3, 4}

\* The errors a page request may fail with
PageErrors == {"Err(Timeout)", "Err(Unauthorized)"}

\* A 32-bit unsigned value as its two 16-bit halves
U32(hi, lo) == [hi |-> hi, lo |-> lo]

\* `x as u32` of an i32: the value itself, or x + 2^32 for a negative x
AsU32(x) ==
    IF x >= 0
      THEN U32(x \div 65536, x % 65536)
      ELSE U32(65535 - ((-x - 1) \div 65536), 65535 - ((-x - 1) % 65536))

\* a >= b on u32 values
U32Ge(a, b) == a.hi > b.hi \/ (a.hi = b.hi /\ a.lo >= b.lo)

\* lines 513 and 517: `current_page >= result.metadata.page_data.total_pages as u32`
LastPage(current_page, total_pages) == U32Ge(AsU32(current_page), AsU32(total_pages))

\* No call yet.  requested are the page numbers asked for, in order; totals the
\* total_pages of the responses; all_transactions the transactions collected, each
\* named by the page it came with.
PagesNotCalled ==
    [pc |-> "idle", current_page |-> 0, requested |-> <<>>, totals |-> <<>>,
     all_transactions |-> <<>>, result |-> "none", metadata |-> 0]

PagesIdle == pg = PagesNotCalled

\* get_transactions(from, to), lines 493-502
TransactionsCall ==
    /\ pg.pc = "idle"
    /\ pg' = [PagesNotCalled EXCEPT !.pc = "request", !.current_page = 1]
    /\ UNCHANGED <<dynVars, connVars, fwdVars, item_update, decoded, adapter_env, position,
                   pnl_out, rt>>

\* lines 503-520 and 527-531: the request for current_page returns a page; its
\* transactions are collected, and the call returns them all with the metadata of
\* this response when this was the last page
PageReturns(total_pages) ==
    /\ pg.pc = "request"
    /\ Len(pg.requested) < MaxPageRequests
    /\ LET got == [pg EXCEPT !.requested = Append(@, pg.current_page),
                             !.totals = Append(@, total_pages),
                             !.all_transactions = Append(@, pg.current_page),
                             !.metadata = total_pages]
       IN IF LastPage(pg.current_page, total_pages)
            THEN pg' = [got EXCEPT !.pc = "done", !.result = "Ok"]
            ELSE pg' = [got EXCEPT !.current_page = pg.current_page + 1]
    /\ UNCHANGED <<dynVars, connVars, fwdVars, item_update, decoded, adapter_env, position,
                   pnl_out, rt>>

\* line 511: the request fails and `?` returns its error
PageFails(e) ==
    /\ pg.pc = "request"
    /\ Len(pg.requested) < MaxPageRequests
    /\ pg' = [pg EXCEPT !.pc = "done", !.requested = Append(@, pg.current_page),
                        !.result = e]
    /\ UNCHANGED <<dynVars, connVars, fwdVars, item_update, decoded, adapter_env, position,
                   pnl_out, rt>>

LibIdle ==
    /\ CodecIdle
    /\ adapter_env = NoText
    /\ PnlIdle
    /\ RetryIdle /\ PagesIdle

\* PriceData::from_item_update(&item_update), price.rs lines 556-583
DecodePrice ==
    /\ decoded' = [kind |-> "price", res |-> PriceFromItemUpdate(item_update)]
    /\ UNCHANGED <<dynVars, connVars, fwdVars, item_update, adapter_env, position, pnl_out,
                   rt, pg>>

\* AccountData::from_item_update(&item_update), account.rs lines 858-886
DecodeAccount ==
    /\ decoded' = [kind |-> "account", res |-> AccountFromItemUpdate(item_update)]
    /\ UNCHANGED <<dynVars, connVars, fwdVars, item_update, adapter_env, position, pnl_out,
                   rt, pg>>

\* ---------------------------------------------------------- specification
InitDyn == New /\ InitObjects /\ left = MaxCalls /\ StreamerNew /\ LibIdle

InitDynShort == New /\ InitObjects /\ left = ShortCalls /\ StreamerNew /\ LibIdle

InitConn == New /\ InitObjects /\ left = 0 /\ StreamerNew /\ LibIdle

CallerStep(c) ==
    \/ \E k \in Keys : AddCall(c, k)
    \/ \E k \in Keys : RemoveCall(c, k)
    \/ CheckConnected(c)
    \/ ReconnectNotify(c)
    \/ ReconnectStart(c)
    \/ StartCall(c)
    \/ BuildClient(c)
    \/ StoreClient(c)
    \/ StoreClientGranted(c)
    \/ StoreSignal(c)
    \/ MarkAndSpawn(c)
    \/ ClearCall(c)
    \/ GetEpicsCall(c)
    \/ GetReceiverCall(c)
    \/ DisconnectCall(c)
    \/ DisconnectLock(c)
    \/ DisconnectLockGranted(c)
    \/ DisconnectClient(c)
    \/ DisconnectFlag(c)

TaskStep(g) ==
    \/ TaskLock(g)
    \/ TaskLockGranted(g)
    \/ ConnectCancelled(g)
    \/ TaskMarkDisconnected(g)

NextDyn ==
    \/ \E c \in Callers : CallerStep(c)
    \/ \E g \in Gens : TaskStep(g)
    \/ \E g \in Gens : ConnectEnded(g)

NextConn ==
    \/ \E kind \in Kinds : Subscribe(kind)
    \/ SubscribeRegistered
    \/ Connect
    \/ ConnectDropped
    \/ Disconnect
    \/ DisconnectMarket
    \/ DisconnectPrice
    \/ \E k \in Classes : RunStart(k)
    \/ \E k \in Classes : \E out \in Outcomes : ConnectDirectReturns(k, out)
    \/ \E k \in Classes : SleepDone(k)
    \/ \E k \in Classes : TaskPanics(k)
    \/ JoinAll
    \/ RaiseSignal

SpecDyn == InitDyn /\ [][NextDyn]_vars

SpecDynShort == InitDynShort /\ [][NextDyn]_vars

\* The clone that uses the streamer where calls are issued one after another
OneCaller == {1}

NextShared ==
    \/ \E c \in OneCaller : CallerStep(c)
    \/ \E g \in Gens : TaskStep(g)
    \/ \E g \in Gens : ConnectEnded(g)
    \/ \E g \in Gens : Deliver(g)
    \/ \E g \in Gens : Convert(g)
    \/ \E g \in Gens : ConverterEnds(g)
    \/ \E g \in Gens : ForwardRecord(g)
    \/ \E g \in Gens : ForwardingEnds(g)
    \/ ReceiverRecv
    \/ HolderDropsReceiver

SpecShared == InitDyn /\ [][NextShared]_vars

SpecConn == InitConn /\ [][NextConn]_vars

NextFwd ==
    \/ \E kind \in Kinds : SubscribeOk(kind)
    \/ \E kind \in Kinds : SubscribeErr(kind)
    \/ \E s \in 1..MaxSubs : \E u \in RawUpdates : Arrive(s, u)
    \/ \E s \in 1..MaxSubs : Forward(s)
    \/ \E s \in 1..MaxSubs : ListenerClosed(s)
    \/ \E s \in 1..MaxSubs : ForwarderEnds(s)
    \/ \E c \in 1..MaxSubs : ReceiverDropped(c)

SpecFwd == InitConn /\ [][NextFwd]_vars

\* The raw update of a market subscription to BID and OFFER: a bid, no offer.
ScenarioUpdates ==
    { [item_name |-> SomeText("MARKET:A"),
       fields |-> [k \in {"BID", "OFFER"} |->
                     SomeText(IF k = "BID" THEN "100.5" ELSE "")],
       changed_fields |-> <<>>, item_pos |-> 1, is_snapshot |-> TRUE] }

InitSub ==
    /\ New /\ InitObjects /\ left = 0 /\ StreamerNew
    /\ CodecIdle /\ PnlIdle /\ RetryIdle /\ PagesIdle
    /\ adapter_env \in {NoText} \cup {SomeText(a) : a \in AdapterNames}

NextSub ==
    \/ \E kind \in Kinds : \E epic_list \in EpicLists : \E flds \in AllFieldSets :
         SubscribeCall(kind, epic_list, flds)
    \/ \E s \in 1..MaxSubs : \E u \in ScenarioUpdates : Arrive(s, u)
    \/ \E s \in 1..MaxSubs : Forward(s)

SpecSub == InitSub /\ [][NextSub]_vars

InitDecode ==
    /\ New /\ InitObjects /\ left = 0 /\ StreamerNew
    /\ item_update \in DecodeInputs
    /\ decoded = NotDecoded
    /\ adapter_env = NoText
    /\ PnlIdle /\ RetryIdle /\ PagesIdle

InitPnl ==
    /\ New /\ InitObjects /\ left = 0 /\ StreamerNew
    /\ CodecIdle /\ adapter_env = NoText /\ RetryIdle /\ PagesIdle
    /\ position \in Positions
    /\ pnl_out = NoPnl

NextPnl ==
    \/ CallPnl
    \/ CallUpdatePnl

SpecPnl == InitPnl /\ [][NextPnl]_vars

NextRetry ==
    \/ \E retries \in 0..MaxRetries : \E delay_ms \in Delays : RetryCall(retries, delay_ms)
    \/ \E out \in RequestResults : RequestReturns(out)
    \/ RetrySleepOver

SpecRetry == InitConn /\ [][NextRetry]_vars

NextPages ==
    \/ TransactionsCall
    \/ \E total_pages \in TotalPagesValues : PageReturns(total_pages)
    \/ \E e \in PageErrors : PageFails(e)

SpecPages == InitConn /\ [][NextPages]_vars

NextDecode ==
    \/ DecodePrice
    \/ DecodeAccount

SpecDecode == InitDecode /\ [][NextDecode]_vars

\* The streamer and the client in the hands of a program that never calls start()
\* or connect(): every other public operation, and what it sets going.
\* The client cell stays empty, so disconnect() goes from the lock to line 437 and
\* never is inside StreamerClient::disconnect (DisconnectClient).
NextNeverStarted ==
    \/ \E c \in Callers : \E k \in Keys : AddCall(c, k)
    \/ \E c \in Callers : \E k \in Keys : RemoveCall(c, k)
    \/ \E c \in Callers : CheckConnected(c)
    \/ \E c \in Callers : ClearCall(c)
    \/ \E c \in Callers : GetEpicsCall(c)
    \/ \E c \in Callers : GetReceiverCall(c)
    \/ \E c \in Callers : DisconnectCall(c)
    \/ \E c \in Callers : DisconnectLock(c)
    \/ \E c \in Callers : DisconnectLockGranted(c)
    \/ \E c \in Callers : DisconnectFlag(c)
    \/ \E kind \in Kinds : Subscribe(kind)
    \/ SubscribeRegistered
    \/ Disconnect
    \/ DisconnectMarket
    \/ DisconnectPrice

SpecNeverStarted == InitDynShort /\ [][NextNeverStarted]_vars

\* ------------------------------------------------------------------ claims
AllIdle == \A c \in Callers : cs[c].pc = "idle"

\* The stored client is subscribed to S and a connection task is running it or
\* about to.
ConnectionOn(S) ==
    /\ client # NoClient
    /\ client.sub = S
    /\ \E g \in Gens : task[g] \in {"spawned", "waiting", "connecting"}

\* C1: an add of a new key that starts on a steady connection and runs alone
\* returns Ok only from the end of start_internal, having notified the running
\* connection's signal once, created one StreamerClient and spawned one connection
\* task; the stored client is the new one and subscribes the membership at the
\* start of the call plus the new key.
C1_OneReconnectCycle ==
    [][\A c \in Callers :
         (cs[c].op = "add" /\ cs[c].quiet /\ ret' = <<c, "add", cs[c].key, "Ok", cs[c].pc>>)
           => /\ cs[c].pc = "s_flag"
              /\ cs[c].nNotified = 1
              /\ cs[c].nCreated = 1
              /\ task[cs[c].mine.id] = "none"
              /\ task' = [task EXCEPT ![cs[c].mine.id] = "spawned"]
              /\ client' = cs[c].mine
              /\ client'.sub = cs[c].pre \cup {cs[c].key}
              /\ shutdown_signal' = cs[c].mine.id
              /\ is_connected']_vars

\* C1 witness: membership {A}, a steady connection, add(B) alone, at the end of its
\* reconnect with the new client on {A, B} stored.
C1_Witness ==
    \E c \in Callers :
        /\ cs[c].pc = "s_flag" /\ cs[c].op = "add" /\ cs[c].key = "B"
        /\ cs[c].quiet /\ cs[c].pre = {"A"}
        /\ cs[c].nNotified = 1
        /\ client = cs[c].mine /\ client.sub = {"A", "B"}

\* C2: once the streamer was started and only adds and removes were issued, each
\* with is_connected set, then whenever all calls have returned and the membership
\* is not empty, a connection on exactly the membership is running or about to.
C2_ChangesNotLost ==
    (hist = "addremove" /\ AllIdle /\ epics # {}) => ConnectionOn(epics)

\* C3: add(k) of a key already in the membership returns Ok at once and changes
\* neither the membership nor client, flag, signal, permits, tasks or lock.
C3_AddIdempotent ==
    [][\A c \in Callers : \A k \in Keys :
         (AddCall(c, k) /\ k \in epics)
           => /\ ret' = <<c, "add", k, "Ok", "idle">>
              /\ cs'[c] = IdleRec
              /\ UNCHANGED <<fields, objects, unlocked>>]_vars

\* C3 witness: an add of a present key has just returned on a connected streamer.
C3_Witness ==
    \E c \in Callers : \E k \in Keys :
        /\ ret = <<c, "add", k, "Ok", "idle">>
        /\ k \in epics
        /\ is_connected
        /\ \E g \in Gens : task[g] = "connecting"

\* C4: remove(k) of a key not in the membership returns Ok at once and changes
\* neither the membership nor client, flag, signal, permits, tasks or lock.
C4_RemoveAbsentNoOp ==
    [][\A c \in Callers : \A k \in Keys :
         (RemoveCall(c, k) /\ k \notin epics)
           => /\ ret' = <<c, "remove", k, "Ok", "idle">>
              /\ cs'[c] = IdleRec
              /\ UNCHANGED <<fields, objects, unlocked>>]_vars

\* C4 witness: a remove of an absent key has just returned on a connected streamer.
C4_Witness ==
    \E c \in Callers : \E k \in Keys :
        /\ ret = <<c, "remove", k, "Ok", "idle">>
        /\ k \notin epics
        /\ is_connected
        /\ \E g \in Gens : task[g] = "connecting"

\* A step that is neither a new call nor a connection ending on its own.
Progress ==
    \/ \E c \in Callers :
          \/ CheckConnected(c) \/ ReconnectNotify(c) \/ ReconnectStart(c)
          \/ BuildClient(c)
          \/ StoreClient(c) \/ StoreClientGranted(c) \/ StoreSignal(c)
          \/ MarkAndSpawn(c)
          \/ DisconnectLock(c) \/ DisconnectLockGranted(c) \/ DisconnectClient(c)
          \/ DisconnectFlag(c)
    \/ \E g \in Gens : TaskStep(g)

\* C5: with start() called once, a call in flight can always go on: some step of a
\* caller or of a connection task is possible without a further call being issued
\* and without a connection ending unnotified.
C5_CallsReturn ==
    (hist \in {"addremove", "mixed"} /\ ~AllIdle) => ENABLED Progress

\* C6: the first get_receiver call returns the receiver and every later one
\* returns InvalidInput.
C6_ReceiverOnce ==
    [][\A c \in Callers :
         GetReceiverCall(c)
           => IF rxOk = 0
                THEN ret' = <<c, "get_receiver", "none", "Ok", "idle">> /\ rxOk' = 1
                ELSE ret' = <<c, "get_receiver", "none", "InvalidInput", "idle">>
                     /\ rxOk' = 1]_vars

\* C6 witness: the receiver was handed out, and a clone's get_receiver call has just
\* been refused while a disconnect is in flight.
C6_Witness ==
    \E c, d \in Callers :
        /\ ret = <<c, "get_receiver", "none", "InvalidInput", "idle">>
        /\ rxOk = 1 /\ ~price_rx
        /\ cs[d].op = "disconnect"

\* C7: no connect_client run makes more than 3 connect attempts, and a run in which
\* 3 attempts failed (none with the graceful text) has returned Err with exactly 3
\* attempts made.
C7_RetryCeiling ==
    \A k \in Classes :
        /\ run[k].attempts <= 3
        /\ run[k].failed = 3
             => /\ run[k].pc = "returned"
                /\ run[k].result = "Err"
                /\ run[k].attempts = 3

\* C7 witness: a run has returned Err after 3 failed attempts.
C7_Witness ==
    \E k \in Classes :
        run[k].pc = "returned" /\ run[k].result = "Err" /\ run[k].failed = 3
            /\ run[k].attempts = 3

\* C8: a connect_client run that returned Err has 3 failed attempts behind it.
C8_ErrOnlyAfterExhaustion ==
    \A k \in Classes :
        (run[k].pc = "returned" /\ run[k].result = "Err") => run[k].failed = 3

\* C8 witness: one run returned Err after 3 failures while the other returned Ok
\* after 2 failures and a third attempt that connected.
C8_Witness ==
    \E k, j \in Classes :
        /\ run[k].pc = "returned" /\ run[k].result = "Err" /\ run[k].failed = 3
        /\ run[j].pc = "returned" /\ run[j].result = "Ok" /\ run[j].failed = 2
        /\ run[j].last = Connected

\* C9: a run whose last attempt failed with a text containing "No more requests to
\* fulfill" has returned Ok, that attempt being its last, with one sleep for each
\* failure before it and none after; and a connect that returned Err has another
\* connection that failed or panicked.
C9_GracefulNoSubscriptions ==
    \A k \in Classes :
        (\E i \in DOMAIN run[k].last.msg :
              run[k].last.msg[i] = "No more requests to fulfill")
          => /\ run[k].pc = "returned"
             /\ run[k].result = "Ok"
             /\ run[k].attempts = run[k].failed + 1
             /\ Len(run[k].slept) = run[k].failed
             /\ (connect_pc = "done" /\ connect_result = "Err")
                   => \E j \in Classes \ {k} : run[j].result \in {"Err", "Panicked"}

\* C9 witness: connect returned Ok with a run that ended on the graceful text at its
\* second attempt, inside a longer error text.
C9_Witness ==
    \E k \in Classes :
        /\ run[k].last = Failure(<<"Sync error: ", "No more requests to fulfill",
                                   " (code 8)">>)
        /\ run[k].attempts = 2
        /\ connect_pc = "done" /\ connect_result = "Ok"

\* C10: once the shutdown signal was notified, a run that has made an attempt makes
\* no further one.
C10_StopsRetryingOnSignal ==
    [][\A k \in Classes :
         (signalled /\ run[k].attempts >= 1)
           => run'[k].attempts = run[k].attempts]_vars

\* The intervals a run may hold: the multiples of the step up to the cap.
IntervalsWithinCap == {i * BackoffStepMillis : i \in 0..(BackoffCapMillis \div BackoffStepMillis)}

\* C11: in every connect_client run the delays slept, in order, never decrease and
\* never exceed 5000 ms, the first is 0 ms, and the interval held for the next sleep
\* is within the cap and not below the last delay slept; and the step that advances
\* the interval keeps both: from any interval within the cap, at any retry of a run,
\* the next interval is not below it and not above 5000 ms.
C11_BackoffMonotone ==
    /\ \A k \in Classes :
          LET d == run[k].slept IN
          /\ \A i \in DOMAIN d : d[i] >= 0 /\ d[i] <= 5000
          /\ \A i, j \in DOMAIN d : i <= j => d[i] <= d[j]
          /\ d # <<>> => d[1] = 0
          /\ run[k].retry_interval_millis <= 5000
          /\ d # <<>> => d[Len(d)] <= run[k].retry_interval_millis
    /\ \A interval \in IntervalsWithinCap : \A rc \in 0..(MAX_CONNECTION_ATTEMPTS - 1) :
          /\ NextInterval(interval, rc) >= interval
          /\ NextInterval(interval, rc) <= 5000

\* C11 witness: a run that slept twice and returned Err.
C11_Witness ==
    \E k \in Classes :
        Len(run[k].slept) = 2 /\ run[k].pc = "returned" /\ run[k].result = "Err"

\* The schedule the claim states: 0 ms, then on retry n (from zero) 200 ms * n more,
\* capped at 5000 ms.
RECURSIVE ScheduledDelay(_)
ScheduledDelay(n) ==
    IF n = 0 THEN 0
    ELSE LET prev == ScheduledDelay(n - 1)
             next == prev + 200 * (n - 1)
         IN IF next < 5000 THEN next ELSE 5000

\* C12: the i-th delay a connect_client run sleeps (before its attempt i + 1) is the
\* scheduled delay of retry i - 1, and the interval it holds after as many sleeps is
\* the scheduled delay of the next retry.
C12_BackoffSchedule ==
    \A k \in Classes :
        /\ \A i \in DOMAIN run[k].slept : run[k].slept[i] = ScheduledDelay(i - 1)
        /\ run[k].retry_interval_millis = ScheduledDelay(Len(run[k].slept))

\* C12 witness: a run in its third attempt, having slept before the second and the
\* third, holding 200 ms.
C12_Witness ==
    \E k \in Classes :
        /\ run[k].pc = "connect_direct" /\ run[k].attempts = 3
        /\ Len(run[k].slept) = 2
        /\ run[k].retry_interval_millis = 200

\* C13: a connection task exists exactly for the classes whose subscription flag
\* was set when connect was called, and none is started later; with no flag set
\* connect returns Ok and starts nothing; with the flag of one class only, the other
\* class has no task, connect can return as soon as the one task has ended, has
\* returned only when it has, and returns Ok when that task ended without error.  A
\* subscription made after connect returned sets its flag and starts no task.
C13_OnlySubscribedClasses ==
    /\ \A k \in Classes : run[k].pc # "none" <=> (connect_pc # "new" /\ run[k].flagged)
    /\ \A k \in Classes : run[k].flagged => has_subs[k]
    /\ (connect_pc # "new" /\ \A k \in Classes : ~run[k].flagged)
          => connect_pc = "done" /\ connect_result = "Ok"
    /\ \A k, j \in Classes :
          (connect_pc # "new" /\ run[k].flagged /\ ~run[j].flagged)
            => /\ run[j] = NotSpawned
               /\ (connect_pc = "join_all" /\ run[k].pc = "returned") => ENABLED JoinAll
               /\ (connect_pc = "done" /\ run[k].result = "Ok") => connect_result = "Ok"
               /\ connect_pc = "done" => run[k].pc = "returned"

\* C13 witness: connect returned Ok with only the market class subscribed, its task
\* ended by a connection that closed, the price class never started; a price
\* subscription made after that set the flag of the price class, and the class still
\* has no task.
C13_Witness ==
    /\ has_subs["Market"] /\ has_subs["Price"]
    /\ run["Market"].flagged /\ ~run["Price"].flagged
    /\ connect_pc = "done" /\ connect_result = "Ok"
    /\ run["Market"].last = Connected /\ run["Market"].attempts = 1
    /\ run["Price"] = NotSpawned
    /\ registered["Price"] # <<>>

\* C14: connect returns, Ok or the one error, only when every connection task it
\* spawned has ended; it returns Ok exactly when none of them ended in an error.
C14_AnyFailureFails ==
    connect_pc = "done"
      => /\ connect_result \in {"Ok", "Err"}
         /\ connect_result = "Ok" <=> \A k \in Classes : run[k].result \in {"none", "Ok"}
         /\ \A k \in Classes : run[k].flagged => run[k].pc = "returned"
         /\ \A k \in Classes : run[k].pc # "none" => run[k].pc = "returned"

\* C14 witness: connect returned Err with the price connection exhausted and the
\* market connection closed without error.
C14_Witness ==
    /\ connect_pc = "done" /\ connect_result = "Err"
    /\ run["Price"].result = "Err" /\ run["Price"].failed = 3
    /\ run["Market"].result = "Ok" /\ run["Market"].last = Connected

\* C15: with both classes connecting, once one connection task has returned the
\* terminal error connect can return, although the other connection, which never
\* failed, is still up.
C15_ReturnsOnTerminalFailure ==
    \A k, j \in Classes :
        ( /\ connect_pc = "join_all"
          /\ run[k].pc = "returned" /\ run[k].result = "Err"
          /\ run[j].pc = "connect_direct" /\ run[j].failed = 0 )
          => ENABLED JoinAll

\* A step of the connection task of class k.
TaskCanStep(k) ==
    \/ RunStart(k)
    \/ \E out \in Outcomes : ConnectDirectReturns(k, out)
    \/ SleepDone(k)

\* C16: when a connection task has panicked, connect has not returned before the
\* other task ended, the other task can still take its steps, and connect returns
\* Err.
C16_PanicIsAnError ==
    \A k \in Classes :
        run[k].result = "Panicked"
          => /\ connect_pc \in {"join_all", "dropped", "done"}
             /\ \A j \in Classes \ {k} :
                   /\ run[j].pc \in {"spawned", "connect_direct", "sleep"}
                        => connect_pc \in {"join_all", "dropped"} /\ ENABLED TaskCanStep(j)
                   /\ connect_pc = "done" => run[j].pc \in {"none", "returned"}
             /\ connect_pc = "done" => connect_result = "Err"

\* C16 witness: the market task panicked, the price task went on to fail once, retry
\* and end with a closed connection, and connect returned Err.
C16_Witness ==
    /\ run["Market"].result = "Panicked"
    /\ run["Price"].result = "Ok" /\ run["Price"].attempts = 2
    /\ run["Price"].last = Connected
    /\ connect_pc = "done" /\ connect_result = "Err"

\* C17: on each handle, a connect attempt in flight and a subscribe or disconnect
\* call holding the handle never coexist, and the Mutex names as its holder exactly
\* the operation that is in flight; so a disconnect that found an attempt in flight
\* waits until the attempt has returned.
C17_HandleExclusive ==
    \A k \in Classes :
        LET attempt == run[k].pc = "connect_direct"
            method == call.pc = "hold" /\ call.k = k
        IN /\ ~(attempt /\ method)
           /\ handle[k] = "connect" <=> attempt
           /\ handle[k] \in {"subscribe", "disconnect"} <=> method
           /\ method => handle[k] = call.op
           /\ (call.pc = "wait" /\ call.k = k) => attempt

\* C17 witness: a disconnect that waited for an attempt in flight now holds the
\* handle, and the task's next attempt waits for it in turn.
C17_Witness ==
    \E k \in Classes :
        /\ call.op = "disconnect" /\ call.pc = "hold" /\ call.k = k
        /\ run[k].pc = "lock" /\ run[k].attempts >= 1

\* C18: StreamerClient::disconnect on a client whose connect was never called
\* returns Ok, having gone through both handles, with both handles free and no
\* connection task; DynamicMarketStreamer::disconnect on a streamer whose start was
\* never called returns Ok and leaves the client None, the flag false and the
\* signal None.
C18_DisconnectNeverStarted ==
    [][/\ (DisconnectPrice /\ connect_pc = "new")
            => /\ mret' = <<"disconnect", "Ok", 2>>
               /\ call' = IdleCall
               /\ handle' = [k \in Classes |-> "free"]
               /\ run' = [k \in Classes |-> NotSpawned]
       /\ \A c \in Callers :
            (DisconnectFlag(c) /\ hist = "setup")
              => /\ ret' = <<c, "disconnect", "none", "Ok", "d_flag">>
                 /\ client' = NoClient
                 /\ ~is_connected'
                 /\ shutdown_signal' = None
                 /\ lockHolder' = Nobody
                 /\ epics' = epics]_vars

\* C18 witness: on a never-connected client with a subscription and a never-started
\* streamer with a key, both disconnects have returned Ok.
C18_Witness ==
    /\ mret = <<"disconnect", "Ok", 2>> /\ connect_pc = "new"
    /\ \E k \in Classes : has_subs[k]
    /\ \E c \in Callers : ret = <<c, "disconnect", "none", "Ok", "d_flag">>
    /\ hist = "setup" /\ epics # {}
    /\ client = NoClient /\ ~is_connected

\* C19: a raw update that cannot be decoded does not stop forwarding.  The
\* forwarding task of a subscription has ended only when the item channel of the
\* subscription is closed and drained, never because of an update: while raw updates
\* wait, the task is running.  As long as the receiver is held, every raw update
\* that arrived is either waiting or delivered on the channel of the subscription,
\* one record per update, and an update that can be decoded is delivered with its
\* own values.  This holds for every subscription, whatever the others received.
C19_DecodeFailureDoesNotStop ==
    \A s \in DOMAIN subsc :
      LET c == subsc[s].ch IN
        /\ subsc[s].fwd = "ended" => (~subsc[s].open /\ subsc[s].items = <<>>)
        /\ subsc[s].items # <<>> => subsc[s].fwd = "running"
        /\ chans[c].rx =>
              /\ Len(chans[c].buf) + Len(subsc[s].items) = subsc[s].seen
              /\ \A i \in DOMAIN chans[c].buf :
                    FromItemUpdate(subsc[s].kind, chans[c].buf[i].raw).ok
                      => IF subsc[s].kind \in {"market", "price"}
                           THEN chans[c].buf[i].rec.item_name
                                  = chans[c].buf[i].raw.item_name.v
                           ELSE chans[c].buf[i].rec
                                  = FromItemUpdate(subsc[s].kind,
                                                   chans[c].buf[i].raw).data.fields

\* C19 witness: a subscription decoded by the price codec got an update that cannot
\* be decoded and then one that can; the channel holds the default record followed
\* by the decoded one, the task runs, and another subscription has its own update
\* delivered by a running task.
C19_Witness ==
    \E s, t \in DOMAIN subsc :
      /\ s # t
      /\ subsc[s].kind \in {"market", "price"}
      /\ subsc[s].fwd = "running" /\ subsc[t].fwd = "running"
      /\ Len(chans[subsc[s].ch].buf) = 2
      /\ ~FromItemUpdate(subsc[s].kind, chans[subsc[s].ch].buf[1].raw).ok
      /\ chans[subsc[s].ch].buf[1].rec = DefaultData(subsc[s].kind)
      /\ chans[subsc[s].ch].buf[2].rec.item_name = "A"
      /\ chans[subsc[s].ch].buf[2].rec.fields.num["MID_OPEN"] = Some(1005)
      /\ chans[subsc[s].ch].buf[2].rec.fields.dealing_flag = Some("Deal")
      /\ Len(chans[subsc[t].ch].buf) = 1

\* C20: every subscribe call returns a channel of its own: there are as many
\* channels as subscriptions and no two subscriptions share one.  Every record on a
\* channel was decoded from a raw update of the subscription the channel was
\* returned for, and the records of a channel are in the order in which the raw
\* updates of that subscription arrived.
C20_IndependentChannels ==
    /\ Len(chans) = Len(subsc)
    /\ \A s, t \in DOMAIN subsc : subsc[s].ch = subsc[t].ch => s = t
    /\ \A s \in DOMAIN subsc : subsc[s].ch \in DOMAIN chans
    /\ \A c \in DOMAIN chans : \A i \in DOMAIN chans[c].buf :
         /\ chans[c].buf[i].from \in DOMAIN subsc
         /\ subsc[chans[c].buf[i].from].ch = c
         /\ chans[c].buf[i].n = i
         /\ chans[c].buf[i].rec = Sent(subsc[chans[c].buf[i].from].kind, chans[c].buf[i].raw)

\* C20 witness: two subscribe calls of the same kind; the channel of the second
\* holds two records of the second subscription in arrival order, the channel of
\* the first holds one record of the first.
C20_Witness ==
    /\ Len(subsc) = 2 /\ subsc[1].kind = subsc[2].kind
    /\ subsc[1].ch # subsc[2].ch
    /\ Len(chans[subsc[1].ch].buf) = 1 /\ chans[subsc[1].ch].buf[1].from = 1
    /\ Len(chans[subsc[2].ch].buf) = 2
    /\ chans[subsc[2].ch].buf[1].from = 2 /\ chans[subsc[2].ch].buf[2].from = 2
    /\ chans[subsc[2].ch].buf[1].raw # chans[subsc[2].ch].buf[2].raw
    /\ chans[subsc[2].ch].buf[1].n = 1 /\ chans[subsc[2].ch].buf[2].n = 2

\* The numeric keys of the record type a decode was made for
NumericKeysOf(kind) == IF kind = "price" THEN PriceNumericKeys ELSE AccountNumericKeys

\* C21: numeric field decoding, for every numeric field of PriceFields and of
\* AccountFields.  When the decode of an update returns Ok, a field whose key is
\* missing, whose value is null or whose text is empty is None (never Some(0)), and
\* a field whose text is a number is Some of the value of that text.  When a
\* numeric field carries any other non-empty text, the decode returns an error.
C21_NumericDecoding ==
    decoded.kind \in {"price", "account"} =>
      \A k \in NumericKeysOf(decoded.kind) :
        LET m == item_update.fields
            empty == k \notin DOMAIN m \/ ~m[k].some \/ m[k].v = ""
        IN /\ (decoded.res.ok /\ empty) => ~decoded.res.data.fields.num[k].some
           /\ (decoded.res.ok /\ ~empty) =>
                 /\ m[k].v \in {"100.5", "0", "-1e1"}
                 /\ decoded.res.data.fields.num[k] =
                      [some |-> TRUE,
                       v |-> CASE m[k].v = "100.5" -> 1005
                               [] m[k].v = "0" -> 0
                               [] OTHER -> -100]
           /\ (~empty /\ m[k].v \notin {"100.5", "0", "-1e1"}) =>
                 /\ ~decoded.res.ok
                 /\ decoded.res.err \in {"Failed to parse as float",
                                         "Unknown dealing flag"}

\* C21 witness: a price update decoded Ok with MID_OPEN "100.5", an empty HIGH and
\* no LOW gave Some(100.5), None and None; the same update with PNL "abc" is one
\* the account decoder refuses.
C21_Witness ==
    /\ decoded.kind = "price" /\ decoded.res.ok
    /\ "MID_OPEN" \in DOMAIN item_update.fields
    /\ item_update.fields["MID_OPEN"] = SomeText("100.5")
    /\ "HIGH" \in DOMAIN item_update.fields
    /\ item_update.fields["HIGH"] = SomeText("")
    /\ decoded.res.data.fields.num["MID_OPEN"] = Some(1005)
    /\ decoded.res.data.fields.num["HIGH"] = NoValue
    /\ decoded.res.data.fields.num["LOW"] = NoValue
    /\ "PNL" \in DOMAIN item_update.fields
    /\ item_update.fields["PNL"] = SomeText("abc")
    /\ ~AccountFromItemUpdate(item_update).ok

\* C22: DLG_FLAG decoding.  When the field holds a text, a price decode that
\* returns Ok has as dealing flag the variant documented for exactly that text
\* (CLOSED Closed, CALL Call, DEAL Deal, EDIT Edit, CLOSINGONLY ClosingOnly,
\* DEALNOEDIT DealNoEdit, AUCTION Auction, AUCTIONNOEDIT AuctionNoEdit, SUSPEND
\* Suspend), and when the text is none of these (another case, the empty text, an
\* undocumented token) the decode returns the unknown-flag error, with no record.
C22_EnumDecoding ==
    LET m == item_update.fields
        documented == { <<"CLOSED", "Closed">>, <<"CALL", "Call">>, <<"DEAL", "Deal">>,
                        <<"EDIT", "Edit">>, <<"CLOSINGONLY", "ClosingOnly">>,
                        <<"DEALNOEDIT", "DealNoEdit">>, <<"AUCTION", "Auction">>,
                        <<"AUCTIONNOEDIT", "AuctionNoEdit">>, <<"SUSPEND", "Suspend">> }
    IN (decoded.kind = "price" /\ "DLG_FLAG" \in DOMAIN m /\ m["DLG_FLAG"].some) =>
         /\ decoded.res.ok =>
               /\ decoded.res.data.fields.dealing_flag.some
               /\ <<m["DLG_FLAG"].v, decoded.res.data.fields.dealing_flag.v>>
                    \in documented
         /\ (\A p \in documented : p[1] # m["DLG_FLAG"].v) =>
               /\ ~decoded.res.ok
               /\ decoded.res.err = "Unknown dealing flag"

\* C22 witness: a price update with DLG_FLAG "deal", every numeric field fine, was
\* refused with the unknown-flag error, and the same update with "DEALNOEDIT" in
\* the field decodes to DealNoEdit.
C22_Witness ==
    /\ decoded.kind = "price" /\ ~decoded.res.ok
    /\ decoded.res.err = "Unknown dealing flag"
    /\ "DLG_FLAG" \in DOMAIN item_update.fields
    /\ item_update.fields["DLG_FLAG"] = SomeText("deal")
    /\ \A k \in DOMAIN item_update.fields \ {"DLG_FLAG"} : ~item_update.fields[k].some
    /\ item_update.changed_fields = <<>>
    /\ LET u == [item_update EXCEPT !.fields["DLG_FLAG"] = SomeText("DEALNOEDIT")]
       IN /\ PriceFromItemUpdate(u).ok
          /\ PriceFromItemUpdate(u).data.fields.dealing_flag = Some("DealNoEdit")

\* The numeric field of a typed record under a wire key: None when the record has
\* no such field
NumberUnder(rec, key) ==
    IF key \in DOMAIN rec.fields.num THEN rec.fields.num[key] ELSE NoValue

\* C23: on the channel of a market subscription with the items MARKET:A, MARKET:B
\* and the fields BID and OFFER, the record delivered for the raw update with BID
\* "100.5" and OFFER "" has the bid Some(100.5) and the offer None.
C23_MarketScenario ==
    \A s \in DOMAIN subsc :
      (/\ subsc[s].kind = "market"
       /\ subsc[s].desc.items = << <<"MARKET", "A">>, <<"MARKET", "B">> >>
       /\ subsc[s].desc.fields = {"BID", "OFFER"})
        => \A i \in DOMAIN chans[subsc[s].ch].buf :
             LET e == chans[subsc[s].ch].buf[i] IN
               (/\ DOMAIN e.raw.fields = {"BID", "OFFER"}
                /\ e.raw.fields["BID"] = SomeText("100.5")
                /\ e.raw.fields["OFFER"] = SomeText(""))
                 => /\ NumberUnder(e.rec, "BID") = Some(1005)
                    /\ NumberUnder(e.rec, "OFFER") = NoValue

\* The members of a sequence
Range(q) == {q[i] : i \in DOMAIN q}

\* C24: every trade subscription has the single item TRADE:<account_id>, exactly
\* the fields CONFIRMS, OPU and WOU, and mode DISTINCT; every market, account and
\* price subscription has mode MERGE.
C24_TradeDistinct ==
    \A s \in DOMAIN subsc :
      IF subsc[s].kind = "trade"
        THEN /\ subsc[s].desc.items = << <<"TRADE", "ACC1">> >>
             /\ subsc[s].desc.fields = {"CONFIRMS", "OPU", "WOU"}
             /\ subsc[s].desc.mode = "DISTINCT"
        ELSE subsc[s].desc.mode = "MERGE"

\* C24 witness: a trade subscription in DISTINCT mode next to a market subscription
\* in MERGE mode on the same client.
C24_Witness ==
    \E s, t \in DOMAIN subsc :
      /\ subsc[s].kind = "trade" /\ subsc[s].desc.mode = "DISTINCT"
      /\ subsc[s].desc.items = << <<"TRADE", AccountId>> >>
      /\ subsc[t].kind = "market" /\ subsc[t].desc.mode = "MERGE"
      /\ Len(subsc[t].desc.items) = 2

\* C25: subscriptions are on the connection of their traffic class.  A market,
\* trade or account subscription is registered on the market connection and not on
\* the price connection, and has no data adapter; a price subscription has items
\* PRICE:<account_id>:<epic>, is registered on the price connection and not on the
\* market connection, and has the data adapter IG_PRICING_ADAPTER names, or
\* "Pricing" when it is not set.  has_market_stream_subs is set exactly when a
\* market, trade or account subscription was made, has_price_stream_subs exactly
\* when a price subscription was made.
C25_RoutedByClass ==
    /\ \A s \in DOMAIN subsc :
         IF subsc[s].kind = "price"
           THEN /\ s \in Range(registered["Price"]) /\ s \notin Range(registered["Market"])
                /\ \A i \in DOMAIN subsc[s].desc.items :
                     /\ Len(subsc[s].desc.items[i]) = 3
                     /\ subsc[s].desc.items[i][1] = "PRICE"
                     /\ subsc[s].desc.items[i][2] = "ACC1"
                /\ subsc[s].desc.data_adapter.some
                /\ subsc[s].desc.data_adapter.v =
                     (IF adapter_env.some THEN adapter_env.v ELSE "Pricing")
           ELSE /\ s \in Range(registered["Market"]) /\ s \notin Range(registered["Price"])
                /\ ~subsc[s].desc.data_adapter.some
    /\ has_subs["Price"] <=> (\E s \in DOMAIN subsc : subsc[s].kind = "price")
    /\ has_subs["Market"] <=> (\E s \in DOMAIN subsc : subsc[s].kind # "price")

\* C25 witness: with IG_PRICING_ADAPTER set, an account subscription alone has set
\* the market flag, and a price subscription for two EPICs made after it is on the
\* price connection with the adapter of the environment.
C25_Witness ==
    /\ adapter_env = SomeText("QuoteAdapter")
    /\ Len(subsc) = 2
    /\ subsc[1].kind = "account" /\ registered["Market"] = <<1>>
    /\ subsc[2].kind = "price" /\ registered["Price"] = <<2>>
    /\ subsc[2].desc.items = << <<"PRICE", AccountId, "A">>, <<"PRICE", AccountId, "B">> >>
    /\ subsc[2].desc.data_adapter = SomeText("QuoteAdapter")
    /\ has_subs["Market"] /\ has_subs["Price"]

\* C26: a clear() call empties the membership set and returns Ok in the same step,
\* with nothing else done: client, is_connected, shutdown_signal and the receiver
\* cell are as before, no Notify got a permit (no reconnect and no disconnect was
\* signalled), no connection task changed state or client, the lock of the client
\* cell was not touched, and the caller is idle again (it went into no reconnect).
C26_ClearOnlyEmpties ==
    [][\A c \in Callers :
         ClearCall(c) =>
           /\ epics' = {}
           /\ ret' = <<c, "clear", "none", "Ok", "idle">>
           /\ cs'[c] = IdleRec
           /\ client' = client
           /\ is_connected' = is_connected
           /\ shutdown_signal' = shutdown_signal
           /\ price_rx' = price_rx
           /\ permit' = permit
           /\ task' = task
           /\ taskClient' = taskClient
           /\ lockHolder' = lockHolder /\ lockQueue' = lockQueue]_vars

\* C26 witness: clear() has just returned on a connected streamer: the membership
\* is empty, while the stored client still has its subscription and its connection
\* task is still connecting, unsignalled.
C26_Witness ==
    /\ \E c \in Callers : ret = <<c, "clear", "none", "Ok", "idle">>
    /\ epics = {}
    /\ is_connected
    /\ client # NoClient /\ client.sub # {}
    /\ shutdown_signal = client.id
    /\ task[client.id] = "connecting" /\ taskClient[client.id] = client.id
    /\ ~permit[client.id]

\* C27: for a position with no cached pnl, pnl() is 0 when the price it needs is
\* missing: the bid for a BUY position, the offer for a SELL position.
C27_ZeroWhenPriceMissing ==
    (/\ pnl_out.some
     /\ ~pnl_out.of.pnl.some
     /\ \/ pnl_out.of.direction = "BUY" /\ ~pnl_out.of.bid.some
        \/ pnl_out.of.direction = "SELL" /\ ~pnl_out.of.offer.some)
      => pnl_out.v = 0

\* C28: pnl() is the cached pnl whenever there is one; without one, and with the
\* needed price there, it is size*bid - size*level for a BUY position and
\* size*level - size*offer for a SELL position.
C28_CachedOrComputed ==
    pnl_out.some =>
      LET p == pnl_out.of IN
        /\ p.pnl.some => pnl_out.v = p.pnl.v
        /\ (~p.pnl.some /\ p.direction = "BUY" /\ p.bid.some)
             => pnl_out.v = p.size * p.bid.v - p.size * p.level
        /\ (~p.pnl.some /\ p.direction = "SELL" /\ p.offer.some)
             => pnl_out.v = p.size * p.level - p.size * p.offer.v

\* C28 witness: a SELL position of size 3 at level 2 with the offer at 1 and no
\* cached pnl gave 3, and the same position with a cached pnl of 7 gives 7.
C28_Witness ==
    /\ pnl_out.some /\ pnl_out.v = 3 /\ pnl_out.of = position
    /\ position.direction = "SELL" /\ position.size = 3 /\ position.level = 2
    /\ position.offer = Some(1) /\ ~position.pnl.some
    /\ Pnl([position EXCEPT !.pnl = Some(7)]) = 7

\* The requests a call of get_order_confirmation_w_retry made so far
RequestsMade == {i \in DOMAIN rt.trace : rt.trace[i].ev = "request"}

\* C29: a call of get_order_confirmation_w_retry makes at most retries + 1
\* requests; what it does is request, sleep, request, ..., with every sleep
\* delay_ms long and between two requests, and nothing after the last request; a
\* request that succeeds is the last thing the call does and Ok is what it returns;
\* an error is returned only after retries + 1 requests that all failed, and is
\* then the error of the last one.
C29_BoundedRetry ==
    /\ Cardinality(RequestsMade) <= rt.retries + 1
    /\ \A i \in DOMAIN rt.trace :
         IF i % 2 = 1
           THEN rt.trace[i].ev = "request"
           ELSE rt.trace[i].ev = "sleep" /\ rt.trace[i].ms = rt.delay_ms
    /\ \A i \in RequestsMade :
         rt.trace[i].out = "Ok" => (i = Len(rt.trace) /\ rt.pc = "done" /\ rt.result = "Ok")
    /\ rt.pc = "done" =>
         /\ rt.trace # <<>> /\ rt.trace[Len(rt.trace)].ev = "request"
         /\ rt.result = rt.trace[Len(rt.trace)].out
         /\ rt.result # "Ok" =>
               /\ Cardinality(RequestsMade) = rt.retries + 1
               /\ \A i \in RequestsMade : rt.trace[i].out # "Ok"
    /\ (rt.pc = "done" /\ rt.retries = 0) => Len(rt.trace) = 1

\* C29 witness: with retries = 2 and delay_ms = 250 the call made three requests
\* that failed, slept 250 ms after the first and after the second, and returned
\* the error of the third.
C29_Witness ==
    /\ rt.pc = "done" /\ rt.retries = 2 /\ rt.delay_ms = 250
    /\ rt.result = "Err(NotFound)"
    /\ rt.trace = <<Requested("Err(Timeout)"), Slept(250), Requested("Err(Timeout)"),
                    Slept(250), Requested("Err(NotFound)")>>

\* A caller inside reconnect or the start_internal it calls, for an add or a remove
Reconnecting(c) == cs[c].op \in {"add", "remove"} /\ cs[c].pc # "idle" /\ cs[c].pc # "chk"

\* C30: a reconnect goes in this order.  Its first step notifies the stored
\* shutdown signal, with no client built yet; the grace wait follows; the step
\* after the wait reads the membership as it is at that step, still with no client
\* built; the next step builds a StreamerClient no task runs yet, subscribed to the
\* membership that was read; and the connection task of that client is spawned only
\* by the last step of the call, after one notification and one client built.
C30_ReconnectStepOrder ==
    [][\A c \in Callers : Reconnecting(c) =>
         /\ cs[c].pc = "r_notify" =>
               /\ cs[c].nNotified = 0 /\ cs[c].nCreated = 0 /\ cs[c].mine = NoClient
               /\ cs'[c].pc # cs[c].pc =>
                     /\ cs'[c].pc = "r_sleep" /\ cs'[c].nNotified = 1
                     /\ shutdown_signal # None /\ permit' = NotifyOne(shutdown_signal)
                     /\ task' = task /\ client' = client
         /\ cs[c].pc = "r_sleep" =>
               /\ cs[c].nNotified = 1 /\ cs[c].nCreated = 0 /\ cs[c].mine = NoClient
               /\ cs'[c].pc # cs[c].pc =>
                     /\ cs'[c].pc \in {"s_new", "idle"}
                     /\ cs'[c].pc = "s_new" =>
                           /\ cs'[c].read = epics /\ epics # {}
                           /\ cs'[c].nCreated = 0 /\ cs'[c].mine = NoClient
                     /\ permit' = permit /\ task' = task /\ client' = client
         /\ cs[c].pc = "s_new" =>
               /\ cs[c].nNotified = 1 /\ cs[c].nCreated = 0 /\ cs[c].mine = NoClient
               /\ cs'[c].pc # cs[c].pc =>
                     /\ cs'[c].pc \in {"s_store", "idle"}
                     /\ cs'[c].pc = "s_store" =>
                           /\ cs'[c].mine.sub = cs[c].read
                           /\ task[cs'[c].mine.id] = "none" /\ cs'[c].nCreated = 1
                     /\ permit' = permit /\ task' = task /\ client' = client
         /\ (cs[c].mine # NoClient /\ task'[cs[c].mine.id] = "spawned"
                                   /\ task[cs[c].mine.id] # "spawned") =>
               /\ cs[c].pc = "s_flag" /\ cs[c].nNotified = 1 /\ cs[c].nCreated = 1
               /\ cs'[c].pc = "idle"]_vars

\* C30 witness: the reconnect of an add(A) was triggered on the membership {A};
\* during its grace wait B was added, and the client it built after the wait
\* subscribes {A, B}.
C30_Witness ==
    \E c \in Callers :
        /\ cs[c].op = "add" /\ cs[c].key = "A" /\ cs[c].pc = "s_store"
        /\ cs[c].nNotified = 1
        /\ cs[c].atTrigger = {"A"} /\ cs[c].read = {"A", "B"}
        /\ cs[c].mine.sub = {"A", "B"} /\ epics = {"A", "B"}

\* C31: while a background connection task is inside connect, on a connection a
\* finished start_internal set up, is_connected is true.
C31_FlagTracksTask ==
    \A g \in Gens :
        (task[g] = "connecting" /\ \A c \in Callers : cs[c].mine.id # g) => is_connected

\* C32: with the streamer started once and only adds and removes issued on the
\* connected streamer, a connection task inside connect waits on the signal stored
\* in shutdown_signal and connects the client of the start_internal that spawned
\* it.
C32_RunningConnectionCancellable ==
    hist = "addremove" =>
        \A g \in Gens :
            task[g] = "connecting" => (shutdown_signal = g /\ taskClient[g] = g)

NoTaskLeft == \A g \in Gens : task[g] = "none"

\* C33: a remove(k) that starts on a steady connection with membership {k} and
\* runs alone returns Ok from reconnect's membership test, having notified the
\* stored shutdown signal once, built no StreamerClient and spawned no task; with
\* no connection task left is_connected is false, and an add that reads the flag
\* then returns Ok at once and leaves client, signal, flag, tasks and membership
\* as they are.
C33_RemoveLastKey ==
    [][/\ \A c \in Callers :
            (/\ cs[c].op = "remove" /\ cs[c].quiet /\ cs[c].pre = {cs[c].key}
             /\ ret' = <<c, "remove", cs[c].key, "Ok", cs[c].pc>>)
              => /\ cs[c].pc = "r_sleep"
                 /\ cs[c].nNotified = 1 /\ cs[c].nCreated = 0
                 /\ epics = {}
                 /\ permit[shutdown_signal] \/ task[shutdown_signal] \in {"released", "none"}
                 /\ UNCHANGED <<client, shutdown_signal, is_connected, task, taskClient,
                                permit, epics>>
       /\ NoTaskLeft => ~is_connected
       /\ \A c \in Callers :
            (cs[c].op = "add" /\ cs[c].pc = "chk" /\ NoTaskLeft /\ cs'[c] # cs[c])
              => /\ ret' = <<c, "add", cs[c].key, "Ok", "chk">>
                 /\ UNCHANGED <<client, shutdown_signal, is_connected, task, taskClient,
                                permit, epics>>]_vars

\* C33 witness: the connection on {A} is over, its client still stored, the
\* membership was emptied, and the fourth call, add(A), has just returned Ok from
\* its read of the flag with A in the membership and nothing connected.
C33_Witness ==
    /\ \E c \in Callers : ret = <<c, "add", "A", "Ok", "chk">>
    /\ left = 0 /\ AllIdle /\ NoTaskLeft
    /\ epics = {"A"} /\ client # NoClient /\ client.sub = {"A"}
    /\ ~is_connected /\ shutdown_signal = client.id

\* C34: start() on an empty membership returns Ok at once: no StreamerClient is
\* built, no task spawned, and client, shutdown_signal, is_connected, permits and
\* membership stay as they are.
C34_StartOnEmpty ==
    [][\A c \in Callers :
         (StartCall(c) /\ epics = {})
           => /\ ret' = <<c, "start", "none", "Ok", "idle">>
              /\ cs'[c] = IdleRec
              /\ UNCHANGED <<client, shutdown_signal, is_connected, task, taskClient,
                             permit, epics>>]_vars

\* C34 witness: start() has just returned Ok on a fresh streamer with nothing in
\* the membership: no client, no signal, not connected, no task.
C34_Witness ==
    /\ \E c \in Callers : ret = <<c, "start", "none", "Ok", "idle">>
    /\ left = ShortCalls - 1
    /\ epics = {} /\ client = NoClient /\ shutdown_signal = None
    /\ ~is_connected /\ NoTaskLeft

\* The records of the clients in G that are with a converter or forwarding task
RECURSIVE OnTheWay(_)
OnTheWay(G) ==
    IF G = {} THEN 0
    ELSE LET g == CHOOSE x \in G : TRUE
         IN sub_chan[g].items + sub_chan[g].typed + OnTheWay(G \ {g})

\* C35: the shared channel stays open and is the one every forwarding task feeds:
\* in every state, whatever reconnects and disconnects happened, the sender made by
\* new() is still in its cell, every record a forwarding task sent went into the
\* shared channel, and, as long as the holder of the receiver keeps it, a client
\* being connected has its forwarding task running, no record is lost on the way
\* (the updates delivered are those still with a converter or forwarding task, on the
\* shared channel, or taken by the receiver), and the receiver handed out took only
\* records of that channel and can take the next one.
C35_SharedChannelSurvives ==
    /\ shared.tx
    /\ \A i \in DOMAIN shared.queue : shared.queue[i].chan = SharedChannel
    /\ shared.got # <<>> => (rxOk = 1 /\ ~price_rx)
    /\ ~shared.rx_dropped =>
         /\ \A g \in Gens : Connecting(g) => fwd_task[g] = "running"
         /\ \A g \in Gens :
              (sub_chan[g].items > 0 \/ sub_chan[g].typed > 0) => fwd_task[g] = "running"
         /\ shared.n = OnTheWay(Gens) + Len(shared.queue) + Len(shared.got)
         /\ (~price_rx /\ shared.queue # <<>>) => ENABLED ReceiverRecv

\* C35 witness: the receiver took a record of the first client while that client
\* was the stored one, hence before the reconnect, and then a record of the
\* second client, built by the reconnect of add(B).
C35_Witness ==
    /\ rxOk = 1
    /\ shared.got = <<[from |-> 1, stored |-> 1], [from |-> 2, stored |-> 2]>>
    /\ client = [id |-> 2, sub |-> {"A", "B"}]
    /\ is_connected

\* C36: the subscription flag of a connection class is set only if some subscribe
\* call on that class returned its channel, having registered its subscription; a
\* call that returned an error left the flags as they were.
C36_FlagsOnlyAfterSuccess ==
    \A k \in Classes : has_subs[k] => registered[k] # <<>>

\* C37: while the receiver of its channel is held, the forwarding task of a
\* subscription has sent one record for every raw update it took: the records on
\* the channel and the updates still waiting add up to the updates that arrived,
\* the i-th record comes from the i-th update, and for a market or price
\* subscription it is the decoded record when the update decodes, and otherwise
\* the record with an empty item name, position 0, every field None and
\* is_snapshot false.
C37_OneRecordPerUpdate ==
    \A s \in DOMAIN subsc :
      LET c == subsc[s].ch
          buf == chans[c].buf
      IN chans[c].rx =>
           /\ Len(buf) + Len(subsc[s].items) = subsc[s].seen
           /\ \A i \in DOMAIN buf :
                /\ buf[i].n = i
                /\ subsc[s].kind \in {"market", "price"} =>
                     IF PriceFromItemUpdate(buf[i].raw).ok
                       THEN /\ buf[i].rec = PriceFromItemUpdate(buf[i].raw).data
                            /\ buf[i].rec.is_snapshot = buf[i].raw.is_snapshot
                       ELSE /\ buf[i].rec.item_name = ""
                            /\ buf[i].rec.item_pos = 0
                            /\ ~buf[i].rec.is_snapshot
                            /\ \A f \in {buf[i].rec.fields, buf[i].rec.changed_fields} :
                                 /\ \A k \in PriceNumericKeys : f.num[k] = NoValue
                                 /\ \A k \in PriceTextKeys : f.text[k] = NoText
                                 /\ f.dealing_flag = NoValue

\* C37 witness: a market subscription took three raw updates, the second with a
\* text that is no number; its channel holds three records, the second the
\* default one between two decoded ones.
C37_Witness ==
    \E s \in DOMAIN subsc :
      LET buf == chans[subsc[s].ch].buf IN
        /\ subsc[s].kind = "market" /\ subsc[s].seen = 3 /\ subsc[s].items = <<>>
        /\ chans[subsc[s].ch].rx
        /\ Len(buf) = 3
        /\ buf[1].rec.is_snapshot /\ buf[1].rec.item_name = "A"
        /\ ~PriceFromItemUpdate(buf[2].raw).ok
        /\ buf[2].rec.item_name = "" /\ ~buf[2].rec.is_snapshot
        /\ buf[3].rec.is_snapshot /\ buf[3].rec.fields.num["MID_OPEN"] = Some(1005)

\* C38: get_transactions asks for pages 1, 2, ... in order, each once; a response
\* whose total_pages is not above the page asked for is the last one and the call
\* returns Ok with the transactions of all pages in page order; a failed request
\* is the last one and its error is what the call returns.
C38_PagesInOrder ==
    /\ \A i \in DOMAIN pg.requested : pg.requested[i] = i
    /\ \A i \in DOMAIN pg.totals :
         pg.totals[i] <= i => (i = Len(pg.requested) /\ pg.pc = "done" /\ pg.result = "Ok")
    /\ (pg.pc = "done" /\ pg.result = "Ok") =>
         /\ pg.all_transactions = pg.requested
         /\ Len(pg.totals) = Len(pg.requested)
         /\ pg.totals[Len(pg.totals)] <= Len(pg.requested)
    /\ (pg.pc = "done" /\ pg.result # "Ok") =>
         /\ pg.result \in PageErrors
         /\ Len(pg.requested) = Len(pg.totals) + 1

\* C39: the forced transport of both handles is the WebSocket streaming transport
\* in every state, and it was at every connect_direct call a connect_client run
\* made.
C39_TransportForced ==
    \A k \in Classes :
        /\ forced_transport[k] = "WsStreaming"
        /\ Len(run[k].transports) = run[k].attempts
        /\ \A i \in DOMAIN run[k].transports : run[k].transports[i] = "WsStreaming"

\* C39 witness: after subscribe calls on both classes, the market run has made
\* its three attempts and the price run one, all on the forced transport.
C39_Witness ==
    /\ has_subs["Market"] /\ has_subs["Price"]
    /\ run["Market"].attempts = MAX_CONNECTION_ATTEMPTS
    /\ run["Market"].transports = <<"WsStreaming", "WsStreaming", "WsStreaming">>
    /\ run["Price"].transports = <<"WsStreaming">>

\* Nothing is connected and nothing is in flight: no call, no stored client, the
\* flag false, no connection task inside connect.
Disconnected ==
    /\ AllIdle
    /\ client = NoClient
    /\ ~is_connected
    /\ \A g \in Gens : task[g] # "connecting"

\* C40: when disconnect() returns Ok and no call is in flight, the stored client
\* is None, is_connected is false and no connection task is inside connect; from
\* then on, until the next call is issued, every step keeps it so and the
\* membership as it is; and no step of a disconnect call changes the membership.
C40_DisconnectedStays ==
    [][/\ \A c \in Callers :
            (ret' = <<c, "disconnect", "none", "Ok", "d_flag">> /\ AllIdle')
              => (Disconnected' /\ epics' = epics)
       /\ (Disconnected /\ left' = left) => (Disconnected' /\ epics' = epics)
       /\ \A c \in Callers :
            ((cs[c].op = "disconnect" \/ cs'[c].op = "disconnect") /\ cs'[c].pc # cs[c].pc)
              => epics' = epics]_vars

\* C40 witness: on a streamer connected on {A}, disconnect() has just returned Ok
\* with no call in flight: the cell is empty, the flag false, the membership still
\* {A}, and the cancelled connection task has yet to write its false.
C40_Witness ==
    /\ \E c \in Callers : ret = <<c, "disconnect", "none", "Ok", "d_flag">>
    /\ Disconnected
    /\ epics = {"A"}
    /\ shutdown_signal # None
    /\ \E g \in Gens : task[g] = "released"

====
